---- MODULE Spec2Model ----
(***************************************************************************)
(* The signaling relay of voice-wbapp (server/server.js): the RoomManager  *)
(* registry, the socket.io broadcast groups the handlers use, and one      *)
(* action per socket event handler.  Node runs each handler to completion  *)
(* on a single thread, so every handler is one atomic step.                 *)
(*                                                                         *)
(* The participants (src/App.tsx with WebRTCService): the peer connections *)
(* each one holds and one action per event handler and per await.          *)
(***************************************************************************)
EXTENDS Integers, Sequences, FiniteSets, TLC

VARIABLES
    rooms,        \* RoomManager.rooms     : room code -> set of socket ids
    userRooms,    \* RoomManager.userRooms : socket id -> room code
    userInfo,     \* RoomManager.userInfo  : socket id -> { isMuted, joinedAt }
    connected,    \* the sockets whose 'connection' handler ran and whose 'disconnect' did not
    sioRooms,     \* socket.io adapter     : socket id -> the broadcast groups it is in
    stats,        \* the stats object
    lastEvent,    \* the event the relay handled last: [event, socket, arg, result],
                  \* result being what the handler's registry call returned (and logged)
    sent          \* what that handler delivered: a set of [to, event, data]

\* The participants' side (src/App.tsx with services/WebRTCService), one
\* value per participant, indexed by the participant's socket id.
VARIABLES
    peerConnections,  \* WebRTCService.peerConnections : key -> peer connection (its index in pcs)
    pcs,              \* every RTCPeerConnection the participant constructed, in order of
                      \* construction: [peerId, closed, localDescription,
                      \* remoteDescription, candidates]
    tasks,            \* the async calls of the participant that are suspended at an await
    participants,     \* callState.participants : sequence of [id, isConnected]
    inbox,            \* signaling events the relay has sent to the participant, in order
    emitted,          \* the signaling events the participant has emitted, in order,
                      \* each with the number of events it had handled by then
    received,         \* the signaling events the participant has handled, in order
    callState,        \* callState : [isInCall, isConnecting, error] (the roster is
                      \* `participants`; isMuted, roomId and the timer are left out)
    localStream,      \* WebRTCService.localStream : 0 for null, else its index in streams
    streams,          \* every MediaStream getUserMedia gave the participant, in order:
                      \* [stopped], whether its tracks were stopped
    socketOpen,       \* SocketService.socket is set and connected
    listeners,        \* [socket, webrtc] : App's handlers are registered in
                      \* SocketService.eventListeners / WebRTCService.eventListeners
    wire              \* the signaling messages a connection has sent that the relay
                      \* has not handled yet, in the order sent

relay == <<rooms, userRooms, userInfo, connected, sioRooms, stats, lastEvent, sent>>

call == <<callState, localStream, streams, socketOpen, listeners>>

client == <<peerConnections, pcs, tasks, participants, inbox, emitted, received,
            callState, localStream, streams, socketOpen, listeners, wire>>

vars == <<rooms, userRooms, userInfo, connected, sioRooms, stats, lastEvent, sent,
          peerConnections, pcs, tasks, participants, inbox, emitted, received,
          callState, localStream, streams, socketOpen, listeners, wire>>

registry == <<rooms, userRooms, userInfo>>

----------------------------------------------------------------------------
(* Bounds of the model. *)

\* connections opened in Spec
NumConns == 3
\* connections opened in SpecRelay
RelayConns == 2
\* connections that send events in SpecCap, besides the members already in the room
CapActive == 3
\* relayed messages counted before the relay actions stop
MaxRelayed == 1
\* connections opened in SpecMute
MuteConns == 2
\* participants in SpecClient
NumPeers == 2
\* user-joined events the participants handle in SpecClient
MaxUserJoined == 2
\* user-left events the participants handle in SpecClient
MaxUserLeft == 1
\* ice-candidate events sent to the participants in SpecClient
MaxCandidates == 2
\* calls of joinRoom by the participant of SpecCall
MaxJoins == 2
\* offers and answers the relay delivers to the participant of SpecCall
MaxOffers == 2
MaxAnswers == 1
\* connection-state changes reported to the participant of SpecCall
MaxStateChanges == 2
\* events in the log and the inbox of the participant of SpecCall
MaxCallEvents == 5
MaxSends == 3
MaxSubmits == 1

\* the candidates a participant's peer connections produce
MaxLocalCandidates == 2

(* Program constants. *)

MAX_CLIENTS_PER_ROOM == 8
MAX_ROOM_ID_LENGTH == 20

\* new Date() in joinRoom: the readings of the clock a join can get, and the
\* one reading of the specifications that do not follow joinedAt
ClockReadings == {1, 2}
Epoch == 1

\* socket.io gives every connection a fresh 20-character id; the n-th
\* connection of a run gets SocketIds[n].
SocketIds ==
    << "sock01AAAAAAAAAAAAAA", "sock02AAAAAAAAAAAAAA", "sock03AAAAAAAAAAAAAA",
       "sock04AAAAAAAAAAAAAA", "sock05AAAAAAAAAAAAAA", "sock06AAAAAAAAAAAAAA",
       "sock07AAAAAAAAAAAAAA", "sock08AAAAAAAAAAAAAA", "sock09AAAAAAAAAAAAAA",
       "sock10AAAAAAAAAAAAAA", "sock11AAAAAAAAAAAAAA", "sock12AAAAAAAAAAAAAA" >>

----------------------------------------------------------------------------
(* JavaScript values that reach the handlers as event arguments. *)

Undefined == [t |-> "undefined", v |-> ""]
Null == [t |-> "null", v |-> ""]
Str(s) == [t |-> "string", v |-> s]
Num(n) == [t |-> "number", v |-> n]
Obj(n) == [t |-> "object", v |-> n]
Bool(b) == [t |-> "boolean", v |-> IF b THEN "true" ELSE "false"]

\* !x
Falsy(x) ==
    \/ x.t \in {"undefined", "null"}
    \/ x.t = "string" /\ x.v = ""
    \/ x.t = "number" /\ x.v = "0"

\* Map.set / Map.delete
MapSet(m, k, val) == [x \in DOMAIN m \cup {k} |-> IF x = k THEN val ELSE m[x]]
MapDelete(m, k) == [x \in DOMAIN m \ {k} |-> m[x]]
EmptyMap == [x \in {} |-> {}]

Msg(to, event, data) == [to |-> to, event |-> event, data |-> data]

----------------------------------------------------------------------------
(* RoomManager, as functions of the registry reg = [rooms, userRooms, userInfo]. *)

Registry == [rooms |-> rooms, userRooms |-> userRooms, userInfo |-> userInfo]

\* leaveCurrentRoom without the clean-up of empty rooms
leaveCurrentRoomKeepEmpty(reg, socketId) ==
    IF socketId \notin DOMAIN reg.userRooms
    THEN [reg |-> reg, ret |-> Null]
    ELSE LET currentRoomId == reg.userRooms[socketId]
             rooms1 ==
                 IF currentRoomId \in DOMAIN reg.rooms
                 THEN MapSet(reg.rooms, currentRoomId, reg.rooms[currentRoomId] \ {socketId})
                 ELSE reg.rooms
         IN  [reg |-> [rooms |-> rooms1,
                       userRooms |-> MapDelete(reg.userRooms, socketId),
                       userInfo |-> MapDelete(reg.userInfo, socketId)],
              ret |-> Str(currentRoomId)]

\* leaveCurrentRoom that forgets the room's member set
leaveCurrentRoomKeepMember(reg, socketId) ==
    IF socketId \notin DOMAIN reg.userRooms
    THEN [reg |-> reg, ret |-> Null]
    ELSE [reg |-> [rooms |-> reg.rooms,
                   userRooms |-> MapDelete(reg.userRooms, socketId),
                   userInfo |-> MapDelete(reg.userInfo, socketId)],
          ret |-> Str(reg.userRooms[socketId])]

\* leaveCurrentRoom(socketId): the registry afterwards and the returned room code
leaveCurrentRoom(reg, socketId) ==
    IF socketId \notin DOMAIN reg.userRooms
    THEN [reg |-> reg, ret |-> Null]
    ELSE LET currentRoomId == reg.userRooms[socketId]
             rooms1 ==
                 IF currentRoomId \in DOMAIN reg.rooms
                 THEN LET room == reg.rooms[currentRoomId] \ {socketId}
                      IN  IF Cardinality(room) = 0
                          THEN MapDelete(reg.rooms, currentRoomId)
                          ELSE MapSet(reg.rooms, currentRoomId, room)
                 ELSE reg.rooms
         IN  [reg |-> [rooms |-> rooms1,
                       userRooms |-> MapDelete(reg.userRooms, socketId),
                       userInfo |-> MapDelete(reg.userInfo, socketId)],
              ret |-> Str(currentRoomId)]

\* room.size >= CONFIG.MAX_CLIENTS_PER_ROOM, without the equality
RoomIsFullStrict(room) == Cardinality(room) > MAX_CLIENTS_PER_ROOM

\* room.size >= CONFIG.MAX_CLIENTS_PER_ROOM
RoomIsFull(room) == Cardinality(room) >= MAX_CLIENTS_PER_ROOM

\* joinRoom reporting the room's size as read before the add
joinRoomSizeBeforeAdd(reg, socketId, roomId, now) ==
    LET left == leaveCurrentRoom(reg, socketId).reg
        rooms1 == IF roomId \in DOMAIN left.rooms
                  THEN left.rooms
                  ELSE MapSet(left.rooms, roomId, {})
        room == rooms1[roomId]
    IN  IF RoomIsFull(room)
        THEN [reg |-> [left EXCEPT !.rooms = rooms1],
              success |-> FALSE, error |-> "Room is full",
              roomSize |-> 0, isFirstUser |-> FALSE]
        ELSE [reg |-> [rooms |-> MapSet(rooms1, roomId, room \cup {socketId}),
                       userRooms |-> MapSet(left.userRooms, socketId, roomId),
                       userInfo |-> MapSet(left.userInfo, socketId, [isMuted |-> Bool(FALSE), joinedAt |-> now])],
              success |-> TRUE, error |-> "",
              roomSize |-> Cardinality(room),
              isFirstUser |-> (Cardinality(room) = 1)]

\* joinRoom without the leave of the current room
joinRoomNoLeave(reg, socketId, roomId, now) ==
    LET rooms1 == IF roomId \in DOMAIN reg.rooms
                  THEN reg.rooms
                  ELSE MapSet(reg.rooms, roomId, {})
        room == rooms1[roomId]
    IN  IF RoomIsFull(room)
        THEN [reg |-> [reg EXCEPT !.rooms = rooms1],
              success |-> FALSE, error |-> "Room is full",
              roomSize |-> 0, isFirstUser |-> FALSE]
        ELSE LET room2 == room \cup {socketId}
             IN  [reg |-> [rooms |-> MapSet(rooms1, roomId, room2),
                           userRooms |-> MapSet(reg.userRooms, socketId, roomId),
                           userInfo |-> MapSet(reg.userInfo, socketId, [isMuted |-> Bool(FALSE), joinedAt |-> now])],
                  success |-> TRUE, error |-> "",
                  roomSize |-> Cardinality(room2),
                  isFirstUser |-> (Cardinality(room2) = 1)]

\* joinRoom(socketId, roomId): the registry afterwards and the returned object
joinRoom(reg, socketId, roomId, now) ==
    LET left == leaveCurrentRoom(reg, socketId).reg
        rooms1 == IF roomId \in DOMAIN left.rooms
                  THEN left.rooms
                  ELSE MapSet(left.rooms, roomId, {})
        room == rooms1[roomId]
    IN  IF RoomIsFull(room)
        THEN [reg |-> [left EXCEPT !.rooms = rooms1],
              success |-> FALSE, error |-> "Room is full",
              roomSize |-> 0, isFirstUser |-> FALSE]
        ELSE LET room2 == room \cup {socketId}
             IN  [reg |-> [rooms |-> MapSet(rooms1, roomId, room2),
                           userRooms |-> MapSet(left.userRooms, socketId, roomId),
                           userInfo |-> MapSet(left.userInfo, socketId, [isMuted |-> Bool(FALSE), joinedAt |-> now])],
                  success |-> TRUE, error |-> "",
                  roomSize |-> Cardinality(room2),
                  isFirstUser |-> (Cardinality(room2) = 1)]

\* getRoomUsers(roomId)
getRoomUsers(reg, roomId) ==
    IF roomId \in DOMAIN reg.rooms THEN reg.rooms[roomId] ELSE {}

\* getUserRoom(socketId)
getUserRoom(reg, socketId) ==
    IF socketId \in DOMAIN reg.userRooms THEN Str(reg.userRooms[socketId]) ELSE Undefined

\* updateUserInfo that stores the supplied fields alone
updateUserInfoReplacing(reg, socketId, isMuted) ==
    [reg EXCEPT !.userInfo = MapSet(reg.userInfo, socketId,
                                    [isMuted |-> isMuted, joinedAt |-> Epoch])]

\* updateUserInfo(socketId, { isMuted }): the registry afterwards;
\* { ...currentInfo, ...info } keeps the fields info does not supply
updateUserInfo(reg, socketId, isMuted) ==
    [reg EXCEPT !.userInfo =
        MapSet(reg.userInfo, socketId,
               IF socketId \in DOMAIN reg.userInfo
               THEN [reg.userInfo[socketId] EXCEPT !.isMuted = isMuted]
               ELSE [isMuted |-> isMuted])]

----------------------------------------------------------------------------
(* socket.io: broadcast groups.  Every socket is in the group named by its  *)
(* own id from connection until disconnect.                                 *)

\* io.to(room): every connected socket in that group
IoTo(sio, room) == {x \in DOMAIN sio : room \in sio[x]}

\* socket.to(room): the group, except the sockets in the sender's own group
\* (the sender itself, while connected)
SocketTo(sio, socket, room) == IoTo(sio, room) \ ({socket} \cup IoTo(sio, socket))

\* socket.join(room)
SocketJoin(sio, socket, room) == [sio EXCEPT ![socket] = @ \cup {room}]

\* socket.leave(room)
SocketLeave(sio, socket, room) == [sio EXCEPT ![socket] = @ \ {room}]

Emit(recipients, event, data) == {Msg(x, event, data) : x \in recipients}

----------------------------------------------------------------------------
(* The handlers. *)

SetRegistry(reg) ==
    /\ rooms' = reg.rooms
    /\ userRooms' = reg.userRooms
    /\ userInfo' = reg.userInfo

\* io.on('connection'): the next socket id connects
Connect(limit) ==
    /\ stats.totalConnections < limit
    /\ UNCHANGED client
    /\ LET id == SocketIds[stats.totalConnections + 1]
       IN  /\ connected' = connected \cup {id}
           /\ sioRooms' = MapSet(sioRooms, id, {id})
           /\ lastEvent' = [event |-> "connection", socket |-> id,
                            arg |-> Undefined, result |-> Undefined]
    /\ stats' = [stats EXCEPT !.totalConnections = @ + 1, !.currentConnections = @ + 1]
    /\ sent' = {}
    /\ UNCHANGED registry

\* the validation with the length bound off by one
InvalidRoomIdOffByOne(roomId) ==
    \/ Falsy(roomId)
    \/ roomId.t # "string"
    \/ Len(roomId.v) >= MAX_ROOM_ID_LENGTH

\* !roomId || typeof roomId !== 'string' || roomId.length > 20
InvalidRoomId(roomId) ==
    \/ Falsy(roomId)
    \/ roomId.t # "string"
    \/ Len(roomId.v) > MAX_ROOM_ID_LENGTH

\* socket.on('join-room'): what the handler does to the relay
joinRoomHandler(socket, roomId, now) ==
    /\ socket \in connected
    /\ UNCHANGED <<connected, stats>>
    /\ IF InvalidRoomId(roomId)
       THEN /\ sent' = Emit({socket}, "error", [message |-> "Invalid room ID"])
            /\ lastEvent' = [event |-> "join-room", socket |-> socket,
                             arg |-> roomId, result |-> Undefined]
            /\ UNCHANGED <<registry, sioRooms>>
       ELSE LET result == joinRoom(Registry, socket, roomId.v, now)
            IN  /\ SetRegistry(result.reg)
                /\ lastEvent' = [event |-> "join-room", socket |-> socket, arg |-> roomId,
                                 result |-> [success |-> result.success,
                                             error |-> result.error,
                                             roomSize |-> result.roomSize,
                                             isFirstUser |-> result.isFirstUser]]
                /\ IF ~result.success
                   THEN /\ sent' = Emit({socket}, "room-error", [message |-> result.error])
                        /\ UNCHANGED sioRooms
                   ELSE LET sio1 == SocketJoin(sioRooms, socket, roomId.v)
                            roomUsers == getRoomUsers(result.reg, roomId.v)
                            otherUsers == roomUsers \ {socket}
                        IN  /\ sioRooms' = sio1
                            /\ sent' =
                                 (IF Cardinality(otherUsers) > 0
                                  THEN Emit(SocketTo(sio1, socket, roomId.v),
                                            "user-joined", Str(socket))
                                  ELSE {})
                                 \cup Emit({socket}, "room-joined",
                                           [roomId |-> roomId.v,
                                            isFirstUser |-> result.isFirstUser,
                                            roomSize |-> result.roomSize])

\* socket.on('join-room') runs for an event of the socket
JoinRoomAt(socket, roomId, now) ==
    /\ joinRoomHandler(socket, roomId, now)
    /\ UNCHANGED client

\* socket.on('join-room') at the one clock reading
JoinRoom(socket, roomId) == JoinRoomAt(socket, roomId, Epoch)

\* socket.on('leave-room')
LeaveRoom(socket) ==
    /\ socket \in connected
    /\ UNCHANGED client
    /\ UNCHANGED <<connected, stats>>
    /\ LET left == leaveCurrentRoom(Registry, socket)
           roomId == left.ret
       IN  /\ SetRegistry(left.reg)
           /\ lastEvent' = [event |-> "leave-room", socket |-> socket,
                            arg |-> Undefined, result |-> roomId]
           /\ IF ~Falsy(roomId)
              THEN /\ sent' = Emit(SocketTo(sioRooms, socket, roomId.v),
                                   "user-left", Str(socket))
                   /\ sioRooms' = SocketLeave(sioRooms, socket, roomId.v)
              ELSE /\ sent' = {}
                   /\ UNCHANGED sioRooms

\* the disconnect handler without the notification of the room
DisconnectSilent(socket) ==
    /\ socket \in connected
    /\ UNCHANGED client
    /\ connected' = connected \ {socket}
    /\ stats' = [stats EXCEPT !.currentConnections = @ - 1]
    /\ LET left == leaveCurrentRoom(Registry, socket)
       IN  /\ SetRegistry(left.reg)
           /\ lastEvent' = [event |-> "disconnect", socket |-> socket,
                            arg |-> Undefined, result |-> left.ret]
           /\ sioRooms' = MapDelete(sioRooms, socket)
           /\ sent' = {}

\* socket.on('disconnect'): socket.io has already taken the socket out of
\* every group when the handler runs
Disconnect(socket) ==
    /\ socket \in connected
    /\ UNCHANGED client
    /\ connected' = connected \ {socket}
    /\ stats' = [stats EXCEPT !.currentConnections = @ - 1]
    /\ LET left == leaveCurrentRoom(Registry, socket)
           roomId == left.ret
           sio1 == MapDelete(sioRooms, socket)
       IN  /\ SetRegistry(left.reg)
           /\ lastEvent' = [event |-> "disconnect", socket |-> socket,
                            arg |-> Undefined, result |-> roomId]
           /\ sioRooms' = sio1
           /\ sent' = IF ~Falsy(roomId)
                      THEN Emit(SocketTo(sio1, socket, roomId.v), "user-left", Str(socket))
                      ELSE {}

\* the argument of offer, answer and ice-candidate
Payload(target, body) ==
    [t |-> "object", target |-> target, sdp |-> body, candidate |-> body]
NullPayload ==
    [t |-> "null", target |-> Undefined, sdp |-> Undefined, candidate |-> Undefined]
\* a string sent as the payload: its target, sdp and candidate are undefined
TextPayload ==
    [t |-> "string", target |-> Undefined, sdp |-> Undefined, candidate |-> Undefined]

\* the payload key that carries the description: sdp, or candidate
BodyField(event) == IF event = "ice-candidate" THEN "candidate" ELSE "sdp"

\* io.to(payload.target): group names are strings
IoToValue(sio, target) == IF target.t = "string" THEN IoTo(sio, target.v) ELSE {}

\* { sdp: payload.sdp, sender: socket.id } / { candidate: payload.candidate, sender: socket.id }
RelayData(event, payload, socket) ==
    IF event = "ice-candidate"
    THEN [candidate |-> payload.candidate, sender |-> socket]
    ELSE [sdp |-> payload.sdp, sender |-> socket]

\* handlers that test the target only before they relay
relayHandlerTargetOnly(socket, event, payload) ==
    /\ socket \in connected
    /\ lastEvent' = [event |-> event, socket |-> socket, arg |-> payload,
                     result |-> Undefined]
    /\ UNCHANGED <<registry, connected, sioRooms>>
    /\ IF payload.t \in {"null", "undefined"} \/ Falsy(payload.target)
       THEN /\ sent' = {}
            /\ UNCHANGED stats
       ELSE /\ sent' = Emit(IoToValue(sioRooms, payload.target), event,
                            RelayData(event, payload, socket))
            /\ stats' = [stats EXCEPT !.messagesRelayed = @ + 1]

\* the common body of the offer, answer and ice-candidate handlers: what it
\* does to the relay; reading a field of a null payload throws, and the
\* handler's catch only logs
relayHandler(socket, event, payload) ==
    /\ socket \in connected
    /\ lastEvent' = [event |-> event, socket |-> socket, arg |-> payload,
                     result |-> Undefined]
    /\ UNCHANGED <<registry, connected, sioRooms>>
    /\ IF payload.t \in {"null", "undefined"}
       THEN /\ sent' = {}
            /\ UNCHANGED stats
       ELSE IF Falsy(payload.target) \/ Falsy(payload[BodyField(event)])
       THEN /\ sent' = {}
            /\ UNCHANGED stats
       ELSE /\ sent' = Emit(IoToValue(sioRooms, payload.target), event,
                            RelayData(event, payload, socket))
            /\ stats' = [stats EXCEPT !.messagesRelayed = @ + 1]

\* the handler of offer, answer or ice-candidate runs for an event of the socket
RelayHandler(socket, event, payload) ==
    /\ relayHandler(socket, event, payload)
    /\ UNCHANGED client

\* socket.on('offer')
Offer(socket, payload) == RelayHandler(socket, "offer", payload)

\* socket.on('answer')
Answer(socket, payload) == RelayHandler(socket, "answer", payload)

\* socket.on('ice-candidate')
IceCandidate(socket, payload) == RelayHandler(socket, "ice-candidate", payload)

\* socket.on('mute-status'); reading data.isMuted of a null or undefined
\* argument throws before the registry is touched, and the handler's catch
\* only logs; of any other value that is not an object it gives undefined
MuteStatus(socket, data) ==
    /\ socket \in connected
    /\ UNCHANGED client
    /\ UNCHANGED <<connected, sioRooms, stats>>
    /\ LET roomId == getUserRoom(Registry, socket)
       IN  /\ lastEvent' = [event |-> "mute-status", socket |-> socket,
                            arg |-> data, result |-> roomId]
           /\ IF ~Falsy(roomId) /\ data.t \notin {"null", "undefined"}
              THEN /\ SetRegistry(updateUserInfo(Registry, socket, data.isMuted))
                   /\ sent' = Emit(SocketTo(sioRooms, socket, roomId.v), "user-mute-status",
                                   [userId |-> socket, isMuted |-> data.isMuted])
              ELSE /\ sent' = {}
                   /\ UNCHANGED registry

----------------------------------------------------------------------------
(* The participants: the event handlers of App.tsx and WebRTCService.  An   *)
(* async function runs from one await to the next in one step; between two  *)
(* steps the browser can deliver other events.  The relay between the       *)
(* participants is the delivery of the offer, answer and ice-candidate      *)
(* handlers: to the target, with the sender's id added.                     *)

Peers == {SocketIds[i] : i \in 1..NumPeers}

\* a session description: its type and the peer connection that produced it
Description(type, from, pc) == [type |-> type, from |-> from, pc |-> pc]
NoDescription == Description("none", "", 0)

\* new RTCPeerConnection(rtcConfiguration), set up for peerId
NewPeerConnection(peerId) ==
    [peerId |-> peerId, closed |-> FALSE, localDescription |-> NoDescription,
     remoteDescription |-> NoDescription, candidates |-> <<>>]

\* generatePeerId(): a random string of at most 13 characters, so never a
\* socket id; the n-th peer connection of a participant draws the n-th one
GeneratedPeerIds == << "k3v9x1q0a7", "p8d2m5z4c6", "w1n6b3y9t2", "h7f4j0s8r5", "e2u5g9l1o3" >>

CountEvents(seq, event) == Cardinality({i \in 1..Len(seq) : seq[i].event = event})

\* the events named `event` in the logs of the first n participants
RECURSIVE TotalEvents(_, _, _)
TotalEvents(log, event, n) ==
    IF n = 0 THEN 0
    ELSE CountEvents(log[SocketIds[n]], event) + TotalEvents(log, event, n - 1)

Task(kind, op, pc, remote, sdp) ==
    [kind |-> kind, op |-> op, pc |-> pc, remote |-> remote, sdp |-> sdp]

\* the participant's async calls suspended on the given call and await
Suspended(p, kind, op) == {t \in tasks[p] : t.kind = kind /\ t.op = op}

\* participants.map(p => p.id === id ? { ...p, isConnected: true } : p)
MarkConnected(parts, id) ==
    [i \in 1..Len(parts) |->
        IF parts[i].id = id THEN [parts[i] EXCEPT !.isConnected = TRUE] ELSE parts[i]]

\* participants.filter(p => p.id !== id)
RECURSIVE WithoutParticipant(_, _)
WithoutParticipant(parts, id) ==
    IF parts = <<>> THEN <<>>
    ELSE IF Head(parts).id = id THEN WithoutParticipant(Tail(parts), id)
    ELSE <<Head(parts)>> \o WithoutParticipant(Tail(parts), id)

\* socketService.emit(event, { target, sdp }), which sends only on a connected
\* socket, and the relay's delivery of it to a target that is connected
ClientEmit(p, event, target, sdp) ==
    IF socketOpen[p]
    THEN /\ emitted' = [emitted EXCEPT ![p] = Append(@, [event |-> event, target |-> target,
                                                          sdp |-> sdp,
                                                          handled |-> Len(received[p])])]
         /\ inbox' = IF target \in Peers /\ socketOpen[target]
                     THEN [inbox EXCEPT ![target] =
                              Append(@, [event |-> event,
                                         data |-> RelayData(event, Payload(Str(target), sdp),
                                                            p)])]
                     ELSE inbox
    ELSE UNCHANGED <<emitted, inbox>>

\* removePeer(peerId) on the peer connections conns and the map: both afterwards
removePeerFrom(conns, map, peerId) ==
    IF peerId \in DOMAIN map
    THEN [pcs |-> [conns EXCEPT ![map[peerId]].closed = TRUE],
          peerConnections |-> MapDelete(map, peerId)]
    ELSE [pcs |-> conns, peerConnections |-> map]

\* removePeer(peerId): the peer connections and the map afterwards
removePeer(p, peerId) ==
    LET after == removePeerFrom(pcs[p], peerConnections[p], peerId)
    IN  /\ pcs' = [pcs EXCEPT ![p] = after.pcs]
        /\ peerConnections' = [peerConnections EXCEPT ![p] = after.peerConnections]

\* the participant's socket is connected and App's handlers are registered
\* on the SocketService, so an event from the relay reaches its handler
Listening(p) == socketOpen[p] /\ listeners[p].socket

\* the event at the head of the participant's inbox is `event`
NextEventIs(p, event) == inbox[p] # <<>> /\ Head(inbox[p]).event = event

\* the handler takes the event at the head of the inbox
TakeEvent(p) ==
    /\ received' = [received EXCEPT ![p] = Append(@, Head(inbox[p]))]
    /\ inbox' = [inbox EXCEPT ![p] = Tail(@)]

\* handleUserJoined(userId), up to the await of peerConnection.createOffer()
\* inside WebRTCService.createOffer(): the roster, the peer connections, the
\* map and the suspended calls afterwards
handleUserJoined(p, userId) ==
    /\ Len(pcs[p]) < Len(GeneratedPeerIds)
    /\ LET pc == Len(pcs[p]) + 1
           peerId == GeneratedPeerIds[pc]
       IN  /\ participants' = [participants EXCEPT ![p] =
                                  Append(@, [id |-> userId, isConnected |-> FALSE])]
           /\ pcs' = [pcs EXCEPT ![p] = Append(@, NewPeerConnection(peerId))]
           /\ peerConnections' = [peerConnections EXCEPT ![p] = MapSet(@, peerId, pc)]
           /\ tasks' = [tasks EXCEPT ![p] =
                           @ \cup {Task("createOffer", "createOffer", pc, userId,
                                        NoDescription)}]

\* the participant handles user-joined for userId, sent by the relay when
\* userId joined the room
HandleUserJoined(p, userId) ==
    /\ Listening(p)
    /\ UNCHANGED call
    /\ TotalEvents(received, "user-joined", NumPeers) < MaxUserJoined
    /\ handleUserJoined(p, userId)
    /\ received' = [received EXCEPT ![p] =
                       Append(@, [event |-> "user-joined", data |-> Str(userId)])]
    /\ UNCHANGED <<inbox, emitted>>
    /\ UNCHANGED relay
    /\ UNCHANGED wire

\* the participant handles the user-joined at the head of its inbox
HandleUserJoinedEvent(p) ==
    /\ Listening(p)
    /\ UNCHANGED call
    /\ NextEventIs(p, "user-joined")
    /\ handleUserJoined(p, Head(inbox[p]).data.v)
    /\ TakeEvent(p)
    /\ UNCHANGED emitted
    /\ UNCHANGED relay
    /\ UNCHANGED wire

\* createOffer(): peerConnection.createOffer() resolves and
\* setLocalDescription(offer) is called; a closed connection rejects, which
\* handleUserJoined catches
OfferCreated(p, t) ==
    /\ t \in Suspended(p, "createOffer", "createOffer")
    /\ tasks' = [tasks EXCEPT ![p] =
                    (@ \ {t}) \cup
                    (IF pcs[p][t.pc].closed THEN {}
                     ELSE {Task("createOffer", "setLocalDescription", t.pc, t.remote,
                                Description("offer", p, t.pc))})]
    /\ UNCHANGED <<peerConnections, pcs, participants, inbox, emitted, received>>
    /\ UNCHANGED call
    /\ UNCHANGED relay
    /\ UNCHANGED wire

\* createOffer(): setLocalDescription(offer) resolves, the offer is returned
\* and handleUserJoined emits it with target = userId
OfferLocalDescriptionSet(p, t) ==
    /\ t \in Suspended(p, "createOffer", "setLocalDescription")
    /\ tasks' = [tasks EXCEPT ![p] = @ \ {t}]
    /\ IF pcs[p][t.pc].closed
       THEN UNCHANGED <<pcs, inbox, emitted>>
       ELSE /\ pcs' = [pcs EXCEPT ![p][t.pc].localDescription = t.sdp]
            /\ ClientEmit(p, "offer", t.remote, t.sdp)
    /\ UNCHANGED <<peerConnections, participants, received>>
    /\ UNCHANGED call
    /\ UNCHANGED relay
    /\ UNCHANGED wire

\* handleOffer(data), up to the await of setRemoteDescription(offer) inside
\* WebRTCService.handleOffer(offer, senderId)
HandleOffer(p) ==
    /\ Listening(p)
    /\ UNCHANGED call
    /\ NextEventIs(p, "offer")
    /\ LET data == Head(inbox[p]).data
           pc == Len(pcs[p]) + 1
       IN  /\ pcs' = [pcs EXCEPT ![p] = Append(@, NewPeerConnection(data.sender))]
           /\ peerConnections' = [peerConnections EXCEPT ![p] = MapSet(@, data.sender, pc)]
           /\ tasks' = [tasks EXCEPT ![p] =
                           @ \cup {Task("handleOffer", "setRemoteDescription", pc,
                                        data.sender, data.sdp)}]
    /\ TakeEvent(p)
    /\ UNCHANGED <<participants, emitted>>
    /\ UNCHANGED relay
    /\ UNCHANGED wire

\* handleOffer(): setRemoteDescription(offer) resolves and createAnswer() is called
OfferRemoteDescriptionSet(p, t) ==
    /\ t \in Suspended(p, "handleOffer", "setRemoteDescription")
    /\ IF pcs[p][t.pc].closed
       THEN /\ tasks' = [tasks EXCEPT ![p] = @ \ {t}]
            /\ UNCHANGED pcs
       ELSE /\ pcs' = [pcs EXCEPT ![p][t.pc].remoteDescription = t.sdp]
            /\ tasks' = [tasks EXCEPT ![p] =
                            (@ \ {t}) \cup {Task("handleOffer", "createAnswer", t.pc,
                                                 t.remote, t.sdp)}]
    /\ UNCHANGED <<peerConnections, participants, inbox, emitted, received>>
    /\ UNCHANGED call
    /\ UNCHANGED relay
    /\ UNCHANGED wire

\* handleOffer(): createAnswer() resolves and setLocalDescription(answer) is called
AnswerCreated(p, t) ==
    /\ t \in Suspended(p, "handleOffer", "createAnswer")
    /\ tasks' = [tasks EXCEPT ![p] =
                    (@ \ {t}) \cup
                    (IF pcs[p][t.pc].closed THEN {}
                     ELSE {Task("handleOffer", "setLocalDescription", t.pc, t.remote,
                                Description("answer", p, t.pc))})]
    /\ UNCHANGED <<peerConnections, pcs, participants, inbox, emitted, received>>
    /\ UNCHANGED call
    /\ UNCHANGED relay
    /\ UNCHANGED wire

\* handleOffer(): setLocalDescription(answer) resolves, the answer is returned,
\* and App's handleOffer emits it and marks the sender connected
AnswerLocalDescriptionSet(p, t) ==
    /\ t \in Suspended(p, "handleOffer", "setLocalDescription")
    /\ tasks' = [tasks EXCEPT ![p] = @ \ {t}]
    /\ IF pcs[p][t.pc].closed
       THEN UNCHANGED <<pcs, inbox, emitted, participants>>
       ELSE /\ pcs' = [pcs EXCEPT ![p][t.pc].localDescription = t.sdp]
            /\ ClientEmit(p, "answer", t.remote, t.sdp)
            /\ participants' = [participants EXCEPT ![p] = MarkConnected(@, t.remote)]
    /\ UNCHANGED <<peerConnections, received>>
    /\ UNCHANGED call
    /\ UNCHANGED relay
    /\ UNCHANGED wire

\* handleAnswer with a peer connection set up for a sender that has none
HandleAnswerCreatingConnection(p) ==
    /\ Listening(p)
    /\ UNCHANGED <<localStream, streams, socketOpen, listeners>>
    /\ NextEventIs(p, "answer")
    /\ LET data == Head(inbox[p]).data
           pc == IF data.sender \in DOMAIN peerConnections[p]
                 THEN peerConnections[p][data.sender]
                 ELSE Len(pcs[p]) + 1
       IN  /\ pcs' = IF data.sender \in DOMAIN peerConnections[p]
                     THEN pcs
                     ELSE [pcs EXCEPT ![p] = Append(@, NewPeerConnection(data.sender))]
           /\ peerConnections' = [peerConnections EXCEPT ![p] = MapSet(@, data.sender, pc)]
           /\ tasks' = [tasks EXCEPT ![p] =
                           @ \cup {Task("handleAnswer", "setRemoteDescription", pc,
                                        data.sender, data.sdp)}]
    /\ TakeEvent(p)
    /\ UNCHANGED <<participants, callState, emitted>>
    /\ UNCHANGED relay
    /\ UNCHANGED wire

\* handleAnswer(data), up to the await of setRemoteDescription(answer) inside
\* WebRTCService.handleAnswer(answer, senderId); without a peer connection
\* under senderId the call resolves at once, the sender is marked connected and
\* isConnecting is cleared
HandleAnswer(p) ==
    /\ Listening(p)
    /\ UNCHANGED <<localStream, streams, socketOpen, listeners>>
    /\ NextEventIs(p, "answer")
    /\ LET data == Head(inbox[p]).data
       IN  IF data.sender \in DOMAIN peerConnections[p]
           THEN /\ tasks' = [tasks EXCEPT ![p] =
                                @ \cup {Task("handleAnswer", "setRemoteDescription",
                                             peerConnections[p][data.sender],
                                             data.sender, data.sdp)}]
                /\ UNCHANGED <<participants, callState>>
           ELSE /\ participants' = [participants EXCEPT ![p] = MarkConnected(@, data.sender)]
                /\ callState' = [callState EXCEPT ![p].isConnecting = FALSE]
                /\ UNCHANGED tasks
    /\ TakeEvent(p)
    /\ UNCHANGED <<peerConnections, pcs, emitted>>
    /\ UNCHANGED relay
    /\ UNCHANGED wire

\* handleAnswer(): setRemoteDescription(answer) resolves when the connection
\* has a local offer and no remote description, and App's handleAnswer marks
\* the sender connected and clears isConnecting; in any other state it
\* rejects, which is only logged
AnswerRemoteDescriptionSet(p, t) ==
    /\ t \in Suspended(p, "handleAnswer", "setRemoteDescription")
    /\ tasks' = [tasks EXCEPT ![p] = @ \ {t}]
    /\ IF /\ ~pcs[p][t.pc].closed
          /\ pcs[p][t.pc].localDescription.type = "offer"
          /\ pcs[p][t.pc].remoteDescription = NoDescription
       THEN /\ pcs' = [pcs EXCEPT ![p][t.pc].remoteDescription = t.sdp]
            /\ participants' = [participants EXCEPT ![p] = MarkConnected(@, t.remote)]
            /\ callState' = [callState EXCEPT ![p].isConnecting = FALSE]
       ELSE UNCHANGED <<pcs, participants, callState>>
    /\ UNCHANGED <<peerConnections, inbox, emitted, received>>
    /\ UNCHANGED <<localStream, streams, socketOpen, listeners>>
    /\ UNCHANGED relay
    /\ UNCHANGED wire

\* handleIceCandidate(data): WebRTCService.addIceCandidate(candidate, senderId)
HandleIceCandidate(p) ==
    /\ Listening(p)
    /\ UNCHANGED call
    /\ NextEventIs(p, "ice-candidate")
    /\ LET data == Head(inbox[p]).data
       IN  IF /\ data.sender \in DOMAIN peerConnections[p]
              /\ pcs[p][peerConnections[p][data.sender]].remoteDescription # NoDescription
           THEN pcs' = [pcs EXCEPT ![p][peerConnections[p][data.sender]].candidates =
                                      Append(@, data.candidate)]
           ELSE UNCHANGED pcs
    /\ TakeEvent(p)
    /\ UNCHANGED <<peerConnections, tasks, participants, emitted>>
    /\ UNCHANGED relay
    /\ UNCHANGED wire

\* handleUserLeft(userId)
HandleUserLeft(p, userId) ==
    /\ Listening(p)
    /\ UNCHANGED call
    /\ TotalEvents(received, "user-left", NumPeers) < MaxUserLeft
    /\ participants' = [participants EXCEPT ![p] = WithoutParticipant(@, userId)]
    /\ removePeer(p, userId)
    /\ received' = [received EXCEPT ![p] =
                       Append(@, [event |-> "user-left", data |-> Str(userId)])]
    /\ UNCHANGED <<tasks, inbox, emitted>>
    /\ UNCHANGED relay
    /\ UNCHANGED wire

\* the relay delivers an ice-candidate that the connection `sender` sent with
\* target p; the candidates sent to p are numbered in the order they are sent
RelayIceCandidate(sender, p) ==
    LET n == CountEvents(inbox[p], "ice-candidate")
             + CountEvents(received[p], "ice-candidate")
    IN  /\ socketOpen[p]
        /\ UNCHANGED call
        /\ TotalEvents(inbox, "ice-candidate", NumPeers)
              + TotalEvents(received, "ice-candidate", NumPeers) < MaxCandidates
        /\ inbox' = [inbox EXCEPT ![p] =
                        Append(@, [event |-> "ice-candidate",
                                   data |-> RelayData("ice-candidate",
                                                      Payload(Str(p), Obj(n + 1)), sender)])]
        /\ UNCHANGED <<peerConnections, pcs, tasks, participants, emitted, received>>
        /\ UNCHANGED relay
        /\ UNCHANGED wire

\* useState<CallState>({ isInCall: false, ..., isConnecting: false, error: null })
InitialCallState == [isInCall |-> FALSE, isConnecting |-> FALSE, error |-> Null]

\* the participants before any event: new SocketService(), new
\* WebRTCService(), setupEventListeners() and the initial callState
ClientInit ==
    /\ peerConnections = [p \in Peers |-> EmptyMap]
    /\ pcs = [p \in Peers |-> <<>>]
    /\ tasks = [p \in Peers |-> {}]
    /\ participants = [p \in Peers |-> <<>>]
    /\ inbox = [p \in Peers |-> <<>>]
    /\ emitted = [p \in Peers |-> <<>>]
    /\ received = [p \in Peers |-> <<>>]
    /\ callState = [p \in Peers |-> InitialCallState]
    /\ localStream = [p \in Peers |-> 0]
    /\ streams = [p \in Peers |-> <<>>]
    /\ socketOpen = [p \in Peers |-> FALSE]
    /\ listeners = [p \in Peers |-> [socket |-> TRUE, webrtc |-> TRUE]]
    /\ wire = [p \in Peers |-> <<>>]

\* the participants once each has joined its room: the socket is connected,
\* initialize() has set the local stream and room-joined was handled
ClientInCall ==
    /\ peerConnections = [p \in Peers |-> EmptyMap]
    /\ pcs = [p \in Peers |-> <<>>]
    /\ tasks = [p \in Peers |-> {}]
    /\ participants = [p \in Peers |-> <<>>]
    /\ inbox = [p \in Peers |-> <<>>]
    /\ emitted = [p \in Peers |-> <<>>]
    /\ received = [p \in Peers |-> <<>>]
    /\ callState = [p \in Peers |-> [InitialCallState EXCEPT !.isInCall = TRUE]]
    /\ localStream = [p \in Peers |-> 1]
    /\ streams = [p \in Peers |-> <<[stopped |-> FALSE]>>]
    /\ socketOpen = [p \in Peers |-> TRUE]
    /\ listeners = [p \in Peers |-> [socket |-> TRUE, webrtc |-> TRUE]]
    /\ wire = [p \in Peers |-> <<>>]

\* the participant's log gains the entry e: a call of the user interface or
\* a callback of the browser, recorded with the signaling events it handled
Logged(p, e) == received' = [received EXCEPT ![p] = Append(@, e)]

\* joinRoom(roomId, url), up to the await of socketService.connect(url); the
\* join form is shown while the participant is not in a call and takes no
\* input while isConnecting is set, and connect() replaces the socket by a
\* new one that is not connected yet
AppJoinRoom(p) ==
    /\ ~callState[p].isInCall
    /\ ~callState[p].isConnecting
    /\ \A t \in tasks[p] : t.kind # "joinRoom"
    /\ CountEvents(received[p], "joinRoom") < MaxJoins
    /\ callState' = [callState EXCEPT ![p].isConnecting = TRUE, ![p].error = Null]
    /\ socketOpen' = [socketOpen EXCEPT ![p] = FALSE]
    /\ tasks' = [tasks EXCEPT ![p] =
                    @ \cup {Task("joinRoom", "connect", 0, "", NoDescription)}]
    /\ Logged(p, [event |-> "joinRoom", data |-> Undefined])
    /\ UNCHANGED <<peerConnections, pcs, participants, inbox, emitted,
                   localStream, streams, listeners>>
    /\ UNCHANGED relay
    /\ UNCHANGED wire

\* joinRoom(): the socket's 'connect' event; handleSocketConnect clears the
\* error, connect() resolves and webrtcService.initialize() is awaited
SocketConnected(p, t) ==
    /\ t \in Suspended(p, "joinRoom", "connect")
    /\ socketOpen' = [socketOpen EXCEPT ![p] = TRUE]
    /\ callState' = IF listeners[p].socket
                    THEN [callState EXCEPT ![p].error = Null]
                    ELSE callState
    /\ tasks' = [tasks EXCEPT ![p] =
                    (@ \ {t}) \cup {Task("joinRoom", "getUserMedia", 0, "", NoDescription)}]
    /\ UNCHANGED <<peerConnections, pcs, participants, inbox, emitted, received,
                   localStream, streams, listeners>>
    /\ UNCHANGED relay
    /\ UNCHANGED wire

\* joinRoom(): getUserMedia() resolves inside initialize(), which sets
\* localStream to the new stream; join-room is emitted
MediaResolved(p, t) ==
    /\ t \in Suspended(p, "joinRoom", "getUserMedia")
    /\ tasks' = [tasks EXCEPT ![p] = @ \ {t}]
    /\ streams' = [streams EXCEPT ![p] = Append(@, [stopped |-> FALSE])]
    /\ localStream' = [localStream EXCEPT ![p] = Len(streams[p]) + 1]
    /\ ClientEmit(p, "join-room", "", NoDescription)
    /\ UNCHANGED <<peerConnections, pcs, participants, received,
                   callState, socketOpen, listeners>>
    /\ UNCHANGED relay
    /\ UNCHANGED wire

\* joinRoom(): getUserMedia() rejects, initialize() throws and the catch of
\* joinRoom reports 'Failed to connect to server'
MediaRejected(p, t) ==
    /\ t \in Suspended(p, "joinRoom", "getUserMedia")
    /\ tasks' = [tasks EXCEPT ![p] = @ \ {t}]
    /\ callState' = [callState EXCEPT ![p].error = Str("Failed to connect to server"),
                                      ![p].isConnecting = FALSE]
    /\ UNCHANGED <<peerConnections, pcs, participants, inbox, emitted, received,
                   localStream, streams, socketOpen, listeners>>
    /\ UNCHANGED relay
    /\ UNCHANGED wire

\* the join-room requests of p that the relay has not answered yet
Unanswered(p) ==
    CountEvents(emitted[p], "join-room")
    - (CountEvents(inbox[p], "room-joined") + CountEvents(received[p], "room-joined")
       + CountEvents(inbox[p], "room-error") + CountEvents(received[p], "room-error"))

\* the relay answers the join-room of p with room-joined: the room held
\* roomSize - 1 members before
RelayRoomJoined(p, roomSize) ==
    /\ socketOpen[p]
    /\ Unanswered(p) > 0
    /\ inbox' = [inbox EXCEPT ![p] =
                    Append(@, [event |-> "room-joined",
                               data |-> [isFirstUser |-> (roomSize = 1),
                                         roomSize |-> roomSize]])]
    /\ UNCHANGED <<peerConnections, pcs, tasks, participants, emitted, received>>
    /\ UNCHANGED call
    /\ UNCHANGED relay
    /\ UNCHANGED wire

\* the relay answers the join-room of p with room-error: the room is full
RelayRoomError(p) ==
    /\ socketOpen[p]
    /\ Unanswered(p) > 0
    /\ inbox' = [inbox EXCEPT ![p] =
                    Append(@, [event |-> "room-error",
                               data |-> [message |-> "Room is full"]])]
    /\ UNCHANGED <<peerConnections, pcs, tasks, participants, emitted, received>>
    /\ UNCHANGED call
    /\ UNCHANGED relay
    /\ UNCHANGED wire

\* handleRoomJoined(data)
HandleRoomJoined(p) ==
    /\ Listening(p)
    /\ NextEventIs(p, "room-joined")
    /\ callState' = [callState EXCEPT ![p].isInCall = TRUE,
                                      ![p].isConnecting = ~Head(inbox[p]).data.isFirstUser,
                                      ![p].error = Null]
    /\ TakeEvent(p)
    /\ UNCHANGED <<peerConnections, pcs, tasks, participants, emitted,
                   localStream, streams, socketOpen, listeners>>
    /\ UNCHANGED relay
    /\ UNCHANGED wire

\* handleRoomError(data)
HandleRoomError(p) ==
    /\ Listening(p)
    /\ NextEventIs(p, "room-error")
    /\ callState' = [callState EXCEPT ![p].error = Str(Head(inbox[p]).data.message),
                                      ![p].isConnecting = FALSE]
    /\ TakeEvent(p)
    /\ UNCHANGED <<peerConnections, pcs, tasks, participants, emitted,
                   localStream, streams, socketOpen, listeners>>
    /\ UNCHANGED relay
    /\ UNCHANGED wire

\* the relay delivers an offer or an answer that the connection `sender` sent
\* with target p; the descriptions of a sender are numbered in the order sent
RelayDescription(sender, p, type) ==
    LET n == Cardinality({i \in 1..Len(inbox[p]) :
                             /\ inbox[p][i].event \in {"offer", "answer"}
                             /\ inbox[p][i].data.sender = sender})
             + Cardinality({i \in 1..Len(received[p]) :
                               /\ received[p][i].event \in {"offer", "answer"}
                               /\ received[p][i].data.sender = sender})
    IN  /\ socketOpen[p]
        /\ CountEvents(inbox[p], type) + CountEvents(received[p], type)
              < (IF type = "offer" THEN MaxOffers ELSE MaxAnswers)
        /\ inbox' = [inbox EXCEPT ![p] =
                        Append(@, [event |-> type,
                                   data |-> RelayData(type,
                                                      Payload(Str(p),
                                                              Description(type, sender, n + 1)),
                                                      sender)])]
        /\ UNCHANGED <<peerConnections, pcs, tasks, participants, emitted, received>>
        /\ UNCHANGED call
        /\ UNCHANGED relay
        /\ UNCHANGED wire

\* RTCPeerConnection.connectionState
ConnectionStates == {"connecting", "connected", "disconnected", "failed"}

\* the connection state the i-th peer connection of p reported last
LastReported(p, i) ==
    LET reports == {k \in 1..Len(received[p]) :
                       /\ received[p][k].event = "connectionStateChange"
                       /\ received[p][k].data.pc = i}
    IN  IF reports = {} THEN "new"
        ELSE received[p][CHOOSE k \in reports : \A j \in reports : j <= k].data.state

\* participants.map(p => p.id === id ? { ...p, isConnected: value } : p)
SetConnected(parts, id, value) ==
    [i \in 1..Len(parts) |->
        IF parts[i].id = id THEN [parts[i] EXCEPT !.isConnected = value] ELSE parts[i]]

\* onconnectionstatechange of the i-th peer connection of p, whose transports
\* exist once both descriptions are set: the 'connectionStateChange' event
\* reaches handleConnectionStateChange, and 'failed' calls removePeer(peerId)
ConnectionStateChange(p, i, state) ==
    /\ i \in 1..Len(pcs[p])
    /\ ~pcs[p][i].closed
    /\ pcs[p][i].localDescription # NoDescription
    /\ pcs[p][i].remoteDescription # NoDescription
    /\ state # LastReported(p, i)
    /\ CountEvents(received[p], "connectionStateChange") < MaxStateChanges
    /\ LET peerId == pcs[p][i].peerId
       IN  /\ participants' =
                 IF listeners[p].webrtc
                 THEN [participants EXCEPT ![p] =
                          SetConnected(@, peerId, state = "connected")]
                 ELSE participants
           /\ IF state = "failed"
              THEN removePeer(p, peerId)
              ELSE UNCHANGED <<pcs, peerConnections>>
           /\ Logged(p, [event |-> "connectionStateChange",
                         data |-> [state |-> state, peerId |-> peerId, pc |-> i]])
    /\ UNCHANGED <<tasks, inbox, emitted>>
    /\ UNCHANGED call
    /\ UNCHANGED relay
    /\ UNCHANGED wire

\* cleanup(): every peer connection in the map is closed
CloseAll(conns, map) ==
    [i \in 1..Len(conns) |->
        IF \E k \in DOMAIN map : map[k] = i
        THEN [conns[i] EXCEPT !.closed = TRUE]
        ELSE conns[i]]

\* cleanup(): the tracks of the local stream are stopped
StopTracks(media, stream) ==
    IF stream = 0 THEN media ELSE [media EXCEPT ![stream].stopped = TRUE]

\* leaveRoom(): leave-room is emitted, socketService.disconnect() closes the
\* socket and clears its listeners, webrtcService.cleanup() closes the peer
\* connections of the map, clears the map, stops and drops the local stream
\* and clears its listeners, and callState is reset; what the relay had sent
\* to the socket and was not handled is lost with the socket
AppLeaveRoom(p) ==
    /\ callState[p].isInCall
    /\ emitted' = IF socketOpen[p]
                  THEN [emitted EXCEPT ![p] =
                           Append(@, [event |-> "leave-room", target |-> "",
                                      sdp |-> NoDescription,
                                      handled |-> Len(received[p])])]
                  ELSE emitted
    /\ socketOpen' = [socketOpen EXCEPT ![p] = FALSE]
    /\ inbox' = [inbox EXCEPT ![p] = <<>>]
    /\ listeners' = [listeners EXCEPT ![p] = [socket |-> FALSE, webrtc |-> FALSE]]
    /\ pcs' = [pcs EXCEPT ![p] = CloseAll(@, peerConnections[p])]
    /\ peerConnections' = [peerConnections EXCEPT ![p] = EmptyMap]
    /\ streams' = [streams EXCEPT ![p] = StopTracks(@, localStream[p])]
    /\ localStream' = [localStream EXCEPT ![p] = 0]
    /\ callState' = [callState EXCEPT ![p] = InitialCallState]
    /\ participants' = [participants EXCEPT ![p] = <<>>]
    /\ Logged(p, [event |-> "leaveRoom", data |-> Undefined])
    /\ UNCHANGED tasks
    /\ UNCHANGED relay
    /\ UNCHANGED wire

\* an event from the relay reaches a socket whose SocketService has no
\* listeners left: triggerEvent finds none and nothing is called
UnheardEvent(p) ==
    /\ socketOpen[p]
    /\ ~listeners[p].socket
    /\ inbox[p] # <<>>
    /\ inbox' = [inbox EXCEPT ![p] = Tail(@)]
    /\ UNCHANGED <<peerConnections, pcs, tasks, participants, emitted, received>>
    /\ UNCHANGED call
    /\ UNCHANGED relay
    /\ UNCHANGED wire

----------------------------------------------------------------------------
(* Inputs and specifications. *)

EmptyStats == [totalConnections |-> 0, currentConnections |-> 0, messagesRelayed |-> 0]
NoEvent == [event |-> "none", socket |-> "", arg |-> Undefined, result |-> Undefined]

\* the relay after the module is loaded
RelayInit ==
    /\ rooms = EmptyMap
    /\ userRooms = EmptyMap
    /\ userInfo = EmptyMap
    /\ connected = {}
    /\ sioRooms = EmptyMap
    /\ stats = EmptyStats
    /\ lastEvent = NoEvent
    /\ sent = {}

\* the state after the relay's module is loaded and every App is mounted
Init == RelayInit /\ ClientInit

CODE20 == "TWENTY-CHARS-ROOM-ID"
CODE21 == "TWENTY-ONE-CHARS-ROOM"

\* join-room arguments: two valid codes (4 and 20 characters) and the invalid shapes
RoomIdInputs ==
    {Str("ABCD"), Str(CODE20), Str(""), Str(CODE21), Num("42")}

Next ==
    \/ Connect(NumConns)
    \/ \E socket \in connected, roomId \in RoomIdInputs : JoinRoom(socket, roomId)
    \/ \E socket \in connected : LeaveRoom(socket)
    \/ \E socket \in connected : Disconnect(socket)

Spec == Init /\ [][Next]_vars

----------------------------------------------------------------------------
(* The relay handlers, with room codes a client can choose to collide with  *)
(* a socket id (both are strings of at most 20 characters).                 *)

RelayRoomIds == {Str("ABCD"), Str(SocketIds[1])}

RelayTargets == {Str(SocketIds[i]) : i \in 1..RelayConns} \cup {Str("ABCD")}

PayloadInputs ==
    {Payload(target, Obj("desc-1")) : target \in RelayTargets}
    \cup {NullPayload, Payload(Undefined, Obj("desc-1")), Payload(Str(""), Obj("desc-1")),
          Payload(Str(SocketIds[1]), Undefined), Payload(Str(SocketIds[1]), Str(""))}

NextRelay ==
    \/ Connect(RelayConns)
    \/ \E socket \in connected, roomId \in RelayRoomIds : JoinRoom(socket, roomId)
    \/ \E socket \in connected : LeaveRoom(socket)
    \/ \E socket \in connected : Disconnect(socket)
    \/ \E socket \in connected, payload \in PayloadInputs :
          stats.messagesRelayed < MaxRelayed /\ Offer(socket, payload)
    \/ \E socket \in connected, payload \in PayloadInputs :
          stats.messagesRelayed < MaxRelayed /\ Answer(socket, payload)
    \/ \E socket \in connected, payload \in PayloadInputs :
          stats.messagesRelayed < MaxRelayed /\ IceCandidate(socket, payload)

SpecRelay == Init /\ [][NextRelay]_vars

----------------------------------------------------------------------------
(* A room that is nearly full.  The room "FULL" already holds               *)
(* MAX_CLIENTS_PER_ROOM - 2 members (the state after that many connections  *)
(* each sent join-room "FULL"); they stay and receive, and the connections  *)
(* opened afterwards send the events.                                       *)

Fill == MAX_CLIENTS_PER_ROOM - 2
Fillers == {SocketIds[i] : i \in 1..Fill}

InitCap ==
    /\ rooms = [r \in {"FULL"} |-> Fillers]
    /\ userRooms = [x \in Fillers |-> "FULL"]
    /\ userInfo = [x \in Fillers |-> [isMuted |-> Bool(FALSE), joinedAt |-> Epoch]]
    /\ connected = Fillers
    /\ sioRooms = [x \in Fillers |-> {x, "FULL"}]
    /\ stats = [totalConnections |-> Fill, currentConnections |-> Fill, messagesRelayed |-> 0]
    /\ lastEvent = NoEvent
    /\ sent = {}
    /\ ClientInit

CapRoomIds == {Str("FULL"), Str("ABCD"), Str("")}

NextCap ==
    \/ Connect(Fill + CapActive)
    \/ \E socket \in connected \ Fillers, roomId \in CapRoomIds : JoinRoom(socket, roomId)
    \/ \E socket \in connected \ Fillers : LeaveRoom(socket)
    \/ \E socket \in connected \ Fillers : Disconnect(socket)

SpecCap == InitCap /\ [][NextCap]_vars

----------------------------------------------------------------------------
(* The mute-status handler, with two rooms to move between. *)

MuteData(isMuted) == [t |-> "object", isMuted |-> isMuted]
NullMuteData == [t |-> "null", isMuted |-> Undefined]
\* a string sent as the argument: its isMuted is undefined
TextMuteData == [t |-> "string", isMuted |-> Undefined]

MuteInputs == {MuteData(Bool(TRUE)), MuteData(Bool(FALSE)), NullMuteData, TextMuteData}

MuteRoomIds == {Str("ABCD"), Str("WXYZ")}

NextMute ==
    \/ Connect(MuteConns)
    \/ \E socket \in connected, roomId \in MuteRoomIds : JoinRoom(socket, roomId)
    \/ \E socket \in connected : LeaveRoom(socket)
    \/ \E socket \in connected : Disconnect(socket)
    \/ \E socket \in connected, data \in MuteInputs : MuteStatus(socket, data)

SpecMute == Init /\ [][NextMute]_vars

----------------------------------------------------------------------------
(* The participants of one room, with the relay passing their signaling     *)
(* events on.  user-joined and user-left reach a participant whenever the   *)
(* other joins (or joins again) and leaves the room.                        *)

NextClient ==
    \/ \E p \in Peers, userId \in Peers : userId # p /\ HandleUserJoined(p, userId)
    \/ \E p \in Peers, userId \in Peers : userId # p /\ HandleUserLeft(p, userId)
    \/ \E p \in Peers, sender \in Peers : sender # p /\ RelayIceCandidate(sender, p)
    \/ \E p \in Peers : HandleOffer(p)
    \/ \E p \in Peers : HandleAnswer(p)
    \/ \E p \in Peers : HandleIceCandidate(p)
    \/ \E p \in Peers : \E t \in tasks[p] : OfferCreated(p, t)
    \/ \E p \in Peers : \E t \in tasks[p] : OfferLocalDescriptionSet(p, t)
    \/ \E p \in Peers : \E t \in tasks[p] : OfferRemoteDescriptionSet(p, t)
    \/ \E p \in Peers : \E t \in tasks[p] : AnswerCreated(p, t)
    \/ \E p \in Peers : \E t \in tasks[p] : AnswerLocalDescriptionSet(p, t)
    \/ \E p \in Peers : \E t \in tasks[p] : AnswerRemoteDescriptionSet(p, t)

InitClient == RelayInit /\ ClientInCall

----------------------------------------------------------------------------
(* One participant, from the join form to the call and out of it again.     *)
(* The relay and the other members of the room are its environment: they    *)
(* answer its join-room, announce members that join and leave while it is   *)
(* in the call, and deliver the offers, answers and candidates of others.   *)

Local == SocketIds[1]

Remotes == Peers \ {Local}

\* the events of the participant's log and inbox stay below the bound
Budget(p) == Len(received[p]) + Len(inbox[p]) < MaxCallEvents

\* the relay sends p what concerns the members of its room
InCall(p) == callState[p].isInCall /\ Budget(p)

NextCall ==
    \/ Budget(Local) /\ AppJoinRoom(Local)
    \/ \E t \in tasks[Local] : SocketConnected(Local, t)
    \/ \E t \in tasks[Local] : MediaResolved(Local, t)
    \/ \E t \in tasks[Local] : MediaRejected(Local, t)
    \/ \E roomSize \in {1, 2} : Budget(Local) /\ RelayRoomJoined(Local, roomSize)
    \/ Budget(Local) /\ RelayRoomError(Local)
    \/ HandleRoomJoined(Local)
    \/ HandleRoomError(Local)
    \/ \E r \in Remotes : InCall(Local) /\ HandleUserJoined(Local, r)
    \/ \E r \in Remotes : InCall(Local) /\ HandleUserLeft(Local, r)
    \/ \E r \in Remotes : InCall(Local) /\ RelayDescription(r, Local, "offer")
    \/ \E r \in Remotes : InCall(Local) /\ RelayDescription(r, Local, "answer")
    \/ \E r \in Remotes : InCall(Local) /\ RelayIceCandidate(r, Local)
    \/ HandleOffer(Local)
    \/ HandleAnswer(Local)
    \/ HandleIceCandidate(Local)
    \/ \E t \in tasks[Local] : OfferCreated(Local, t)
    \/ \E t \in tasks[Local] : OfferLocalDescriptionSet(Local, t)
    \/ \E t \in tasks[Local] : OfferRemoteDescriptionSet(Local, t)
    \/ \E t \in tasks[Local] : AnswerCreated(Local, t)
    \/ \E t \in tasks[Local] : AnswerLocalDescriptionSet(Local, t)
    \/ \E t \in tasks[Local] : AnswerRemoteDescriptionSet(Local, t)
    \/ \E i \in 1..Len(pcs[Local]), state \in ConnectionStates :
          Budget(Local) /\ ConnectionStateChange(Local, i, state)
    \/ Budget(Local) /\ AppLeaveRoom(Local)
    \/ UnheardEvent(Local)

SpecCall == Init /\ [][NextCall]_vars

----------------------------------------------------------------------------
(* The relay with the participants: every App joins once, its join-room is  *)
(* handled by the relay's registry, and what the relay emits reaches the    *)
(* sockets of the members.  Offers and answers are passed on as in         *)
(* SpecClient.                                                              *)

SystemRoomIds == {Str("ABCD"), Str("WXYZ")}

\* what the relay's last handler emitted to the socket q, as that socket's events
MessagesTo(q) ==
    IF \E m \in sent : m.to = q
    THEN LET m == CHOOSE m \in sent : m.to = q
         IN  <<[event |-> m.event, data |-> m.data]>>
    ELSE <<>>

\* socket.emit / socket.to(room).emit: the messages of the handler that ran
\* last leave the relay, each for the socket it is addressed to
Deliver ==
    /\ sent # {}
    /\ inbox' = [q \in Peers |-> IF socketOpen[q] THEN inbox[q] \o MessagesTo(q)
                                 ELSE inbox[q]]
    /\ sent' = {}
    /\ UNCHANGED <<registry, connected, sioRooms, stats, lastEvent>>
    /\ UNCHANGED <<peerConnections, pcs, tasks, participants, emitted, received>>
    /\ UNCHANGED call
    /\ UNCHANGED wire

\* the next connection the relay accepts is the socket of an App that is
\* waiting in connect()
NextSocketAwaited ==
    /\ stats.totalConnections < NumPeers
    /\ Suspended(SocketIds[stats.totalConnections + 1], "joinRoom", "connect") # {}

NextSystem ==
    \/ \E p \in Peers : CountEvents(received[p], "joinRoom") = 0 /\ AppJoinRoom(p)
    \/ sent = {} /\ NextSocketAwaited /\ Connect(NumPeers)
    \/ \E p \in connected : \E t \in tasks[p] : SocketConnected(p, t)
    \/ \E p \in Peers : \E t \in tasks[p] : MediaResolved(p, t)
    \/ \E p \in connected, roomId \in SystemRoomIds :
          sent = {} /\ Unanswered(p) > 0 /\ JoinRoom(p, roomId)
    \/ Deliver
    \/ \E p \in Peers : HandleRoomJoined(p)
    \/ \E p \in Peers : HandleUserJoinedEvent(p)
    \/ \E p \in Peers : HandleOffer(p)
    \/ \E p \in Peers : HandleAnswer(p)
    \/ \E p \in Peers : \E t \in tasks[p] : OfferCreated(p, t)
    \/ \E p \in Peers : \E t \in tasks[p] : OfferLocalDescriptionSet(p, t)
    \/ \E p \in Peers : \E t \in tasks[p] : OfferRemoteDescriptionSet(p, t)
    \/ \E p \in Peers : \E t \in tasks[p] : AnswerCreated(p, t)
    \/ \E p \in Peers : \E t \in tasks[p] : AnswerLocalDescriptionSet(p, t)

SpecSystem == Init /\ [][NextSystem]_vars

SpecClient == InitClient /\ [][NextClient]_vars

----------------------------------------------------------------------------
(* Properties of the relay. *)

RoomFullError(socket) == Msg(socket, "room-error", [message |-> "Room is full"])

\* C1: every room in the registry has at most MAX_CLIENTS_PER_ROOM (8)
\* members, after any interleaving of join-room, leave-room and disconnect.
C1_RoomNeverExceedsCapacity ==
    \A r \in DOMAIN rooms : Cardinality(rooms[r]) <= MAX_CLIENTS_PER_ROOM

\* a join-room was just refused by a room that holds 8 members, with every
\* sending connection open
C1_Witness ==
    /\ lastEvent.event = "join-room"
    /\ lastEvent.arg = Str("FULL")
    /\ lastEvent.result = [success |-> FALSE, error |-> "Room is full",
                           roomSize |-> 0, isFirstUser |-> FALSE]
    /\ "FULL" \in DOMAIN rooms
    /\ Cardinality(rooms["FULL"]) = MAX_CLIENTS_PER_ROOM
    /\ stats.currentConnections = Fill + CapActive

\* C2: every join-room for a room that has 8 members is rejected and
\* leaves that room's member set as it was.
C2_JoinOfFullRoomRejected ==
    [][\A r \in DOMAIN rooms :
          (/\ Cardinality(rooms[r]) = MAX_CLIENTS_PER_ROOM
           /\ lastEvent'.event = "join-room"
           /\ lastEvent'.arg = Str(r))
          => /\ RoomFullError(lastEvent'.socket) \in sent'
             /\ ~ \E m \in sent' : m.event = "room-joined"
             /\ r \in DOMAIN rooms'
             /\ rooms'[r] = rooms[r]]_vars

\* C3: a join-room rejected because the room is full changes no registry
\* state: the requester keeps the membership and metadata it had, and its
\* room still exists.
C3_FullRejectionMutatesNothing ==
    [][(/\ lastEvent'.event = "join-room"
        /\ RoomFullError(lastEvent'.socket) \in sent')
       => UNCHANGED <<rooms, userRooms, userInfo>>]_vars

\* C4: a join-room whose code is empty, is not a string or is longer than
\* 20 characters is rejected and leaves the registry (rooms, memberships,
\* metadata) unchanged; a code of exactly 20 characters is accepted.
C4_InvalidCodeRejected ==
    [][lastEvent'.event = "join-room" =>
          LET arg == lastEvent'.arg
              socket == lastEvent'.socket
          IN  /\ (arg.t # "string" \/ arg.v = "" \/ Len(arg.v) > 20)
                    => /\ UNCHANGED <<rooms, userRooms, userInfo>>
                       /\ sent' # {}
                       /\ \A m \in sent' : m.to = socket /\ m.event # "room-joined"
              /\ (arg.t = "string" /\ Len(arg.v) = 20)
                    => /\ arg.v \in DOMAIN rooms'
                       /\ socket \in rooms'[arg.v]
                       /\ \E m \in sent' : /\ m.to = socket
                                           /\ m.event = "room-joined"
                                           /\ m.data.roomId = arg.v]_vars

\* a member of the room with the 20-character code has just sent a
\* join-room with a 21-character code and is still a member
C4_Witness ==
    /\ lastEvent.event = "join-room"
    /\ lastEvent.arg = Str(CODE21)
    /\ lastEvent.socket \in DOMAIN userRooms
    /\ userRooms[lastEvent.socket] = CODE20
    /\ lastEvent.socket \in rooms[CODE20]

\* C5: a rejected join (room full or invalid code) delivers room-error to
\* the joining connection and nothing to any other connection.
C5_RejectedJoinEmitsRoomError ==
    (lastEvent.event = "join-room" /\ ~ \E m \in sent : m.event = "room-joined")
    => /\ \E m \in sent : m.to = lastEvent.socket /\ m.event = "room-error"
       /\ \A m \in sent : m.to = lastEvent.socket

\* C6: when the last member of a room leaves, by leave-room or by
\* disconnect, the room is removed from the registry; and a successful join
\* with a code that is not in the registry returns isFirstUser = true and
\* roomSize = 1.
C6_LastLeaveDeletesRoom ==
    [][/\ \A socket \in DOMAIN userRooms :
             (/\ lastEvent'.event \in {"leave-room", "disconnect"}
              /\ lastEvent'.socket = socket
              /\ rooms[userRooms[socket]] = {socket})
             => userRooms[socket] \notin DOMAIN rooms'
       /\ (/\ lastEvent'.event = "join-room"
           /\ lastEvent'.arg.t = "string"
           /\ lastEvent'.arg.v \notin DOMAIN rooms
           /\ lastEvent'.arg.v \in DOMAIN rooms'
           /\ lastEvent'.socket \in rooms'[lastEvent'.arg.v])
          => Msg(lastEvent'.socket, "room-joined",
                 [roomId |-> lastEvent'.arg.v, isFirstUser |-> TRUE, roomSize |-> 1])
             \in sent']_vars

\* the only member of room ABCD has just disconnected and the room is gone
C6_Witness ==
    /\ lastEvent.event = "disconnect"
    /\ lastEvent.result = Str("ABCD")
    /\ sent = {}
    /\ "ABCD" \notin DOMAIN rooms

\* the last event was a join-room that put its sender in the room it named
JoinSucceeded ==
    /\ lastEvent.event = "join-room"
    /\ lastEvent.arg.t = "string"
    /\ lastEvent.arg.v \in DOMAIN rooms
    /\ lastEvent.socket \in rooms[lastEvent.arg.v]

\* C7: on a successful join the joiner receives exactly one room-joined,
\* whose roomSize is the number of members of the room after the join and
\* whose isFirstUser is true exactly when the room has no other member.
C7_RoomJoinedReportsRoom ==
    JoinSucceeded =>
        LET room == rooms[lastEvent.arg.v]
            joined == {m \in sent : m.event = "room-joined"}
        IN  /\ Cardinality(joined) = 1
            /\ \A m \in joined :
                  /\ m.to = lastEvent.socket
                  /\ m.data.roomSize = Cardinality(room)
                  /\ m.data.isFirstUser = (room \ {lastEvent.socket} = {})

\* a connection has just joined a room that had one member
C7_Witness ==
    /\ JoinSucceeded
    /\ Cardinality(rooms[lastEvent.arg.v]) = 2
    /\ Msg(lastEvent.socket, "room-joined",
           [roomId |-> lastEvent.arg.v, isFirstUser |-> FALSE, roomSize |-> 2]) \in sent

\* C8: on a successful join, user-joined with the joiner's id goes once to
\* each other registry member of the joined room and to no other connection.
C8_UserJoinedToOtherMembersOnly ==
    JoinSucceeded =>
        {m \in sent : m.event = "user-joined"}
        = {Msg(x, "user-joined", Str(lastEvent.socket)) :
              x \in rooms[lastEvent.arg.v] \ {lastEvent.socket}}

RelayEvents == {"offer", "answer", "ice-candidate"}

\* C9: an offer, answer or ice-candidate with a non-empty target and
\* payload, whose target is a connected room member, is delivered to that
\* target with sender = the sending connection's id and the payload as sent
\* (stated for a target other than the sender).
C9_RelayDeliveredToTarget ==
    (/\ lastEvent.event \in RelayEvents
     /\ lastEvent.arg.t = "object"
     /\ lastEvent.arg.target # Str(lastEvent.socket)
     /\ lastEvent.arg.target.t = "string"
     /\ lastEvent.arg.target.v # ""
     /\ lastEvent.arg.target.v \in connected
     /\ lastEvent.arg.target.v \in DOMAIN userRooms
     /\ IF lastEvent.event = "ice-candidate"
        THEN lastEvent.arg.candidate \notin {Undefined, Null, Str("")}
        ELSE lastEvent.arg.sdp \notin {Undefined, Null, Str("")})
    => \E m \in sent :
          /\ m.to = lastEvent.arg.target.v
          /\ m.event = lastEvent.event
          /\ m.data.sender = lastEvent.socket
          /\ IF lastEvent.event = "ice-candidate"
             THEN m.data.candidate = lastEvent.arg.candidate
             ELSE m.data.sdp = lastEvent.arg.sdp

\* C10: a relayed offer, answer or ice-candidate is delivered to at most
\* one connection, the one whose id equals the target field, whatever the
\* target is.
C10_RelayOnlyToTarget ==
    lastEvent.event \in RelayEvents =>
        /\ Cardinality(sent) <= 1
        /\ \A m \in sent : lastEvent.arg.target = Str(m.to)

\* the ids of the connections that were opened and have since closed
ClosedSockets == {SocketIds[i] : i \in 1..stats.totalConnections} \ connected

\* C11: an offer, answer or ice-candidate whose target is the id of a
\* connection that no longer exists is dropped silently: no connection
\* receives any event and the registry is unchanged.
C11_RelayToClosedTargetDropped ==
    [][(/\ lastEvent'.event \in RelayEvents
        /\ lastEvent'.arg.t = "object"
        /\ lastEvent'.arg.target.t = "string"
        /\ lastEvent'.arg.target.v \in ClosedSockets)
       => /\ sent' = {}
          /\ UNCHANGED <<rooms, userRooms, userInfo>>]_vars

\* C12: a mute-status from a connection that is in a room sets its mute flag
\* and delivers user-mute-status{userId, isMuted} to exactly the other
\* registry members of the sender's room (not the sender, not a connection
\* that is not a member of that room); from a connection in no room it
\* changes nothing and sends nothing.
C12_MuteStatusToRoomMembersOnly ==
    [][(lastEvent'.event = "mute-status" /\ lastEvent'.arg.t = "object") =>
          LET socket == lastEvent'.socket
              isMuted == lastEvent'.arg.isMuted
          IN  IF socket \in DOMAIN userRooms
              THEN /\ userInfo'[socket].isMuted = isMuted
                   /\ sent' = {Msg(x, "user-mute-status",
                                   [userId |-> socket, isMuted |-> isMuted]) :
                                  x \in rooms[userRooms[socket]] \ {socket}}
              ELSE /\ UNCHANGED <<rooms, userRooms, userInfo>>
                   /\ sent' = {}]_vars

\* C13: a leave-room from a member removes it from its room and delivers
\* user-left with its id to each remaining member of that room; a leave-room
\* from a connection that is in no room changes no state and sends nothing.
C13_LeaveRoomNotifiesRemaining ==
    [][lastEvent'.event = "leave-room" =>
          LET socket == lastEvent'.socket
          IN  IF socket \in DOMAIN userRooms
              THEN LET roomId == userRooms[socket]
                   IN  /\ socket \notin DOMAIN userRooms'
                       /\ roomId \in DOMAIN rooms' => socket \notin rooms'[roomId]
                       /\ \A x \in rooms[roomId] \ {socket} :
                              Msg(x, "user-left", Str(socket)) \in sent'
              ELSE /\ UNCHANGED <<rooms, userRooms, userInfo, connected, sioRooms, stats>>
                   /\ sent' = {}]_vars

\* what a leave-room from `socket` would leave in the registry and send
LeaveRoomOutcome(socket) ==
    LET left == leaveCurrentRoom(Registry, socket)
    IN  [reg |-> left.reg,
         sent |-> IF ~Falsy(left.ret)
                  THEN Emit(SocketTo(sioRooms, socket, left.ret.v), "user-left", Str(socket))
                  ELSE {}]

\* what a disconnect of `socket` would leave in the registry and send
DisconnectOutcome(socket) ==
    LET left == leaveCurrentRoom(Registry, socket)
    IN  [reg |-> left.reg,
         sent |-> IF ~Falsy(left.ret)
                  THEN Emit(SocketTo(MapDelete(sioRooms, socket), socket, left.ret.v),
                            "user-left", Str(socket))
                  ELSE {}]

MembershipsOf(socket) == {r \in DOMAIN rooms : socket \in rooms[r]}

\* C15: in every reachable registry state each connection is a member of at
\* most one room; a successful join of room Y by a member of room X (X # Y)
\* leaves it a member of Y only, and X is deleted if that made it empty.
C15_OneRoomPerConnection ==
    /\ [](\A i \in 1..Len(SocketIds) : Cardinality(MembershipsOf(SocketIds[i])) <= 1)
    /\ [][\A socket \in DOMAIN userRooms :
             (/\ lastEvent'.event = "join-room"
              /\ lastEvent'.socket = socket
              /\ lastEvent'.arg # Str(userRooms[socket])
              /\ \E m \in sent' : m.event = "room-joined")
             => LET X == userRooms[socket]
                    Y == lastEvent'.arg.v
                IN  /\ {r \in DOMAIN rooms' : socket \in rooms'[r]} = {Y}
                    /\ userRooms'[socket] = Y
                    /\ rooms[X] = {socket} => X \notin DOMAIN rooms'
                    /\ rooms[X] # {socket} => rooms'[X] = rooms[X] \ {socket}]_vars

\* a connection that had joined ABCD alone has just joined the room with the
\* 20-character code, and ABCD is gone
C15_Witness ==
    /\ JoinSucceeded
    /\ lastEvent.arg = Str(CODE20)
    /\ "ABCD" \in sioRooms[lastEvent.socket]
    /\ "ABCD" \notin DOMAIN rooms
    /\ MembershipsOf(lastEvent.socket) = {CODE20}

\* C16: whenever a connection stops being a registry member of a room, by
\* leave-room, by disconnect or by the implicit leave of a join-room
\* (accepted or rejected), every remaining member of that room is sent
\* user-left for it.
C16_EveryLeaveNotifiesRemaining ==
    [][\A r \in DOMAIN rooms : \A socket \in rooms[r] :
          (r \notin DOMAIN rooms' \/ socket \notin rooms'[r])
          => \A x \in rooms[r] \ {socket} :
                Msg(x, "user-left", Str(socket)) \in sent']_vars

----------------------------------------------------------------------------
(* Properties of the participants. *)

\* the events named `event` that p has handled from `sender`, in order
HandledFrom(p, event, sender) ==
    SelectSeq(received[p], LAMBDA m : m.event = event /\ m.data.sender = sender)

\* the candidates p has been handed from `sender`, in arrival order
CandidatesFrom(p, sender) ==
    LET handled == HandledFrom(p, "ice-candidate", sender)
    IN  [i \in 1..Len(handled) |-> handled[i].data.candidate]

\* p has nothing left to do: no event in its inbox, no call suspended at an
\* await
Settled(p) == inbox[p] = <<>> /\ tasks[p] = {}

\* C17: an ice-candidate from remote R that arrives before R's remote
\* description has been applied (also before any link for R exists) is kept
\* and applied after the remote description is applied, in arrival order; no
\* such candidate is dropped.  Stated for the one offer R sent: once it is
\* applied and nothing is pending, the link for R has been given every
\* candidate that arrived from R, in arrival order.
C17_EarlyCandidatesKept ==
    \A p \in Peers, r \in Peers :
        (/\ Settled(p)
         /\ Len(HandledFrom(p, "offer", r)) = 1
         /\ r \in DOMAIN peerConnections[p]
         /\ pcs[p][peerConnections[p][r]].remoteDescription # NoDescription)
        => pcs[p][peerConnections[p][r]].candidates = CandidatesFrom(p, r)

\* the events named `event` that p has emitted with target r, in order
EmittedTo(p, event, r) ==
    SelectSeq(emitted[p], LAMBDA m : m.event = event /\ m.target = r)

\* C18: when the local participant has created and sent an offer to remote
\* R and an answer with sender R then arrives, the answer is applied as the
\* remote description of the peer connection that produced that offer.
\* Stated for the one offer sent to R, once the answer has been handled.
C18_AnswerAppliedToOfferingConnection ==
    \A p \in Peers, r \in Peers :
        (/\ Settled(p)
         /\ Len(EmittedTo(p, "offer", r)) = 1
         /\ Len(HandledFrom(p, "answer", r)) = 1)
        => LET pc == pcs[p][EmittedTo(p, "offer", r)[1].sdp.pc]
           IN  pc.remoteDescription = HandledFrom(p, "answer", r)[1].data.sdp

\* p emitted its one offer to r before it handled the one offer from r
OfferedBeforeReceiving(p, r) ==
    /\ Len(EmittedTo(p, "offer", r)) = 1
    /\ Len(HandledFrom(p, "offer", r)) = 1
    /\ \E i \in 1..Len(received[p]) :
          /\ received[p][i] = HandledFrom(p, "offer", r)[1]
          /\ EmittedTo(p, "offer", r)[1].handled < i

\* C19: if both participants of a pair send an offer to each other before
\* either has received the other's offer, exactly one answer is produced for
\* the pair.
C19_GlareYieldsOneAnswer ==
    \A p \in Peers, r \in Peers :
        (/\ p # r
         /\ Settled(p) /\ Settled(r)
         /\ OfferedBeforeReceiving(p, r)
         /\ OfferedBeforeReceiving(r, p))
        => Len(EmittedTo(p, "answer", r)) + Len(EmittedTo(r, "answer", p)) = 1

\* the peer connections of p that belong to the session with remote r and
\* are not closed: those set up for an offer received from r, and those p
\* created to make an offer to r
OpenFor(p, r) ==
    {k \in 1..Len(pcs[p]) :
        /\ ~pcs[p][k].closed
        /\ \/ pcs[p][k].peerId = r
           \/ \E t \in tasks[p] : t.kind = "createOffer" /\ t.pc = k /\ t.remote = r
           \/ \E i \in 1..Len(emitted[p]) :
                 /\ emitted[p][i].event = "offer"
                 /\ emitted[p][i].target = r
                 /\ emitted[p][i].sdp.pc = k}

\* C20: at every moment the orchestrator holds at most one open peer
\* connection per remote identifier, and every open peer connection for
\* remote R is the one the map holds under R's identifier.
C20_OneOpenConnectionPerRemote ==
    \A p \in Peers, r \in Peers :
        /\ Cardinality(OpenFor(p, r)) <= 1
        /\ \A k \in OpenFor(p, r) :
              r \in DOMAIN peerConnections[p] /\ peerConnections[p][r] = k

----------------------------------------------------------------------------
(* Properties of the participants: leaving, failures, the roster. *)

\* the step in which participant p handles user-left for r
HandlesUserLeft(p, r) ==
    received'[p] = Append(received[p], [event |-> "user-left", data |-> Str(r)])

\* C21: once a participant has processed user-left for R, it holds no open
\* peer connection for R, whichever side started the session (the local
\* offer made on user-joined, or the offer received from R), and R is no
\* longer in its roster.
C21_UserLeftClosesEveryConnection ==
    [][\A p \in Peers, r \in Peers :
          HandlesUserLeft(p, r)
          => /\ OpenFor(p, r)' = {}
             /\ \A i \in 1..Len(participants'[p]) : participants'[p][i].id # r]_vars

\* the step in which participant p runs leaveRoom
LeavesRoom(p) ==
    received'[p] = Append(received[p], [event |-> "leaveRoom", data |-> Undefined])

\* C22: after leaveRoom every peer connection the participant held is
\* closed, its peer-connection map is empty, its local media stream is
\* stopped and released, and the call state is back to not-in-call with an
\* empty roster.
C22_LeaveRoomReleasesEverything ==
    [][\A p \in Peers :
          LeavesRoom(p)
          => /\ \A i \in 1..Len(pcs'[p]) : pcs'[p][i].closed
             /\ DOMAIN peerConnections'[p] = {}
             /\ localStream'[p] = 0
             /\ \A k \in 1..Len(streams'[p]) : streams'[p][k].stopped
             /\ ~callState'[p].isInCall
             /\ ~callState'[p].isConnecting
             /\ participants'[p] = <<>>]_vars

\* the step in which participant p handles the event at the head of its
\* inbox, an answer or an ice-candidate whose sender has no entry in the map
HandlesFromUnknownSender(p) ==
    /\ inbox[p] # <<>>
    /\ Head(inbox[p]).event \in {"answer", "ice-candidate"}
    /\ Head(inbox[p]).data.sender \notin DOMAIN peerConnections[p]
    /\ received'[p] = Append(received[p], Head(inbox[p]))

\* C24: an answer or an ice-candidate whose sender has no peer connection is
\* ignored: the peer-connection map and every existing peer connection stay
\* as they were, no call is left pending on any of them, and no error is
\* reported.
C24_UnknownSenderIgnored ==
    [][\A p \in Peers :
          HandlesFromUnknownSender(p)
          => /\ peerConnections'[p] = peerConnections[p]
             /\ pcs'[p] = pcs[p]
             /\ tasks'[p] = tasks[p]
             /\ callState'[p].error = callState[p].error]_vars

\* the participant holds an open peer connection and has just handled an
\* answer, and before it an ice-candidate, from senders without one
C24_Witness ==
    \E p \in Peers :
        /\ Len(received[p]) >= 2
        /\ LET last == received[p][Len(received[p])]
               before == received[p][Len(received[p]) - 1]
           IN  /\ last.event = "answer"
               /\ before.event = "ice-candidate"
               /\ last.data.sender \notin DOMAIN peerConnections[p]
               /\ before.data.sender \notin DOMAIN peerConnections[p]
        /\ \E i \in 1..Len(pcs[p]) : ~pcs[p][i].closed
        /\ DOMAIN peerConnections[p] # {}

\* the step in which the i-th peer connection of p reports the state 'failed'
ReportsFailed(p, i) ==
    received'[p] = Append(received[p],
                          [event |-> "connectionStateChange",
                           data |-> [state |-> "failed", peerId |-> pcs[p][i].peerId,
                                     pc |-> i]])

\* the ids of the roster, in order
RosterIds(parts) == [i \in 1..Len(parts) |-> parts[i].id]

\* C25: when the peer connection of a remote reports the connection state
\* 'failed', that peer connection is closed and removed from the map; the
\* peer connections of the other remotes, the membership of the room and the
\* in-call state stay as they were.
C25_FailedConnectionRemoved ==
    [][\A p \in Peers : \A i \in 1..Len(pcs[p]) :
          ReportsFailed(p, i)
          => /\ pcs'[p][i].closed
             /\ \A k \in DOMAIN peerConnections'[p] : peerConnections'[p][k] # i
             /\ \A j \in 1..Len(pcs[p]) :
                   pcs[p][j].peerId # pcs[p][i].peerId => pcs'[p][j] = pcs[p][j]
             /\ \A k \in DOMAIN peerConnections[p] :
                   k # pcs[p][i].peerId
                   => /\ k \in DOMAIN peerConnections'[p]
                      /\ peerConnections'[p][k] = peerConnections[p][k]
             /\ RosterIds(participants'[p]) = RosterIds(participants[p])
             /\ callState'[p] = callState[p]]_vars

\* the connection state participant p was told last for the remote id, by a
\* connectionStateChange event naming it
LastReportedFor(p, id) ==
    LET reports == {k \in 1..Len(received[p]) :
                       /\ received[p][k].event = "connectionStateChange"
                       /\ received[p][k].data.peerId = id}
    IN  IF reports = {} THEN "none"
        ELSE received[p][CHOOSE k \in reports : \A j \in reports : j <= k].data.state

\* C26: a roster entry has isConnected = true only when the state last
\* reported by the media capability for that remote is 'connected'; the end
\* of the offer/answer handshake alone never marks a remote connected.
C26_ConnectedOnlyWhenReported ==
    \A p \in Peers : \A i \in 1..Len(participants[p]) :
        participants[p][i].isConnected
        => LastReportedFor(p, participants[p][i].id) = "connected"

\* the place in the log of p of its last call of joinRoom (0 without one)
CallStart(p) ==
    LET joins == {k \in 1..Len(received[p]) : received[p][k].event = "joinRoom"}
    IN  IF joins = {} THEN 0 ELSE CHOOSE k \in joins : \A j \in joins : j <= k

\* the members the entries k..Len(log) of the log told of: one per
\* user-joined, and roomSize - 1 per room-joined
RECURSIVE ToldFrom(_, _)
ToldFrom(log, k) ==
    IF k > Len(log) THEN 0
    ELSE (IF log[k].event = "user-joined" THEN 1
          ELSE IF log[k].event = "room-joined" THEN log[k].data.roomSize - 1
          ELSE 0) + ToldFrom(log, k + 1)

\* the sessions p has started in its current call: the offers it is creating
\* and the offers it has sent
SessionsStarted(p) ==
    Cardinality({t \in tasks[p] : t.kind = "createOffer"})
    + Cardinality({i \in 1..Len(emitted[p]) :
                      /\ emitted[p][i].event = "offer"
                      /\ emitted[p][i].handled >= CallStart(p)})

\* C27: whenever a participant is told of another member of its room, by
\* user-joined or by room-joined for a room that is not empty, it starts a
\* session with that member: it creates an offer and sends it, so a
\* participant in a call has started as many sessions as members it was
\* told of.
C27_ToldOfMemberStartsSession ==
    \A p \in Peers :
        callState[p].isInCall => SessionsStarted(p) >= ToldFrom(received[p], CallStart(p) + 1)

\* nothing is in flight: every join-room was answered, the relay's messages
\* went out, every participant handled what reached its socket and no call
\* of a participant is suspended
NothingInFlight ==
    /\ sent = {}
    /\ \A p \in Peers : inbox[p] = <<>> /\ Unanswered(p) = 0
    /\ \A p \in Peers : tasks[p] = {}

\* C28: after a join, once every message in flight is delivered, the roster
\* of every member of the room, the newcomer included, holds exactly the ids
\* of the other members the registry has for that room.
C28_RosterMatchesRegistry ==
    NothingInFlight
    => \A p \in DOMAIN userRooms :
          {participants[p][i].id : i \in 1..Len(participants[p])}
             = getRoomUsers(Registry, userRooms[p]) \ {p}

\* ---------------------------------------------------------------------------
\* The order of the relay's deliveries
\* ---------------------------------------------------------------------------

\* the events whose order is followed
OrderEvents == {"offer", "ice-candidate"}

\* the number of messages the connections have sent
RECURSIVE SendsOf(_)
SendsOf(ps) ==
    IF ps = {} THEN 0
    ELSE LET p == CHOOSE p \in ps : TRUE
         IN  Len(emitted[p]) + SendsOf(ps \ {p})

\* a connected socket emits offer, answer or ice-candidate; the description
\* it carries is numbered in the order the socket sends
SocketSend(p, event, target) ==
    /\ p \in connected
    /\ SendsOf(Peers) < MaxSends
    /\ LET body == Obj(Len(emitted[p]) + 1)
       IN  /\ wire' = [wire EXCEPT ![p] = Append(@, [event |-> event,
                                                     payload |-> Payload(Str(target), body)])]
           /\ emitted' = [emitted EXCEPT ![p] = Append(@, [event |-> event, target |-> target,
                                                           sdp |-> body,
                                                           handled |-> Len(received[p])])]
    /\ UNCHANGED relay
    /\ UNCHANGED <<peerConnections, pcs, tasks, participants, inbox, received>>
    /\ UNCHANGED call

\* a connected socket emits a signaling event without a payload
SocketSendNull(p, event) ==
    /\ p \in connected
    /\ SendsOf(Peers) < MaxSends
    /\ wire' = [wire EXCEPT ![p] = Append(@, [event |-> event, payload |-> NullPayload])]
    /\ emitted' = [emitted EXCEPT ![p] = Append(@, [event |-> event, target |-> "",
                                                    sdp |-> Undefined,
                                                    handled |-> Len(received[p])])]
    /\ UNCHANGED relay
    /\ UNCHANGED <<peerConnections, pcs, tasks, participants, inbox, received>>
    /\ UNCHANGED call

\* what a handler's emits add to the socket of q, behind what the relay wrote
\* to that socket before
Written(msgs, q) ==
    IF \E m \in msgs : m.to = q
    THEN LET m == CHOOSE m \in msgs : m.to = q
         IN  <<[event |-> m.event, data |-> m.data]>>
    ELSE <<>>

\* the message of the connection the relay handles next: the oldest one
NextOnWire(p) == Head(wire[p])

\* a relay that handles the newest message of a connection first
RelayServesOutOfTurn(p) ==
    /\ wire[p] # <<>>
    /\ LET m == wire[p][Len(wire[p])]
       IN  relayHandler(p, m.event, m.payload)
    /\ wire' = [wire EXCEPT ![p] = SubSeq(@, 1, Len(@) - 1)]
    /\ inbox' = [q \in Peers |-> inbox[q] \o Written(sent', q)]
    /\ UNCHANGED <<peerConnections, pcs, tasks, participants, emitted, received>>
    /\ UNCHANGED call

\* the relay's handler runs for the next message of a connection, to its end:
\* io.to(target).emit writes to the target's socket before the handler returns
RelayServes(p) ==
    /\ wire[p] # <<>>
    /\ relayHandler(p, NextOnWire(p).event, NextOnWire(p).payload)
    /\ wire' = [wire EXCEPT ![p] = Tail(@)]
    /\ inbox' = [q \in Peers |-> inbox[q] \o Written(sent', q)]
    /\ UNCHANGED <<peerConnections, pcs, tasks, participants, emitted, received>>
    /\ UNCHANGED call

NextOrder ==
    \/ Connect(NumPeers)
    \/ \E p \in Peers, event \in OrderEvents, target \in Peers : SocketSend(p, event, target)
    \/ \E p \in Peers : SocketSendNull(p, "offer")
    \/ \E p \in Peers : RelayServes(p)

SpecOrder == Init /\ [][NextOrder]_vars

\* the number the sender gave to a delivered description
Number(m) == IF m.event = "ice-candidate" THEN m.data.candidate.v ELSE m.data.sdp.v

\* the relay has delivered the messages of one sender to q in the order the
\* sender sent them
InOrderSent(q) ==
    \A i, j \in 1..Len(inbox[q]) :
        (i < j /\ inbox[q][i].data.sender = inbox[q][j].data.sender)
        => Number(inbox[q][i]) < Number(inbox[q][j])

\* C29: the relay handles the messages of one connection in the order it
\* received them, and two signaling messages from the same sender to the same
\* target are delivered to the target in the order they were sent, whatever
\* the other connections do in between.
C29_PerConnectionOrder ==
    /\ [](\A q \in Peers : InOrderSent(q))
    /\ [][\A p \in Peers :
            wire'[p] # wire[p] /\ Len(wire'[p]) < Len(wire[p])
            => /\ lastEvent'.socket = p
               /\ lastEvent'.arg = wire[p][1].payload
               /\ wire'[p] = Tail(wire[p])]_vars

\* two messages of one sender reached the same target while another
\* connection's message was delivered to that target between them
C29_Witness ==
    \E q \in Peers : \E i, j, k \in 1..Len(inbox[q]) :
        /\ i < k /\ k < j
        /\ inbox[q][i].data.sender = inbox[q][j].data.sender
        /\ inbox[q][k].data.sender # inbox[q][i].data.sender

\* ---------------------------------------------------------------------------
\* Malformed messages
\* ---------------------------------------------------------------------------

\* the payloads of offer, answer and ice-candidate: one that is relayed, and
\* the ones that are no object
MalformedPayloads == {NullPayload, TextPayload}
PayloadsSent == {Payload(Str(SocketIds[1]), Obj("desc-1"))} \cup MalformedPayloads

\* the arguments of join-room: room codes, and the ones that are no string
RoomIdsSent == MuteRoomIds \cup {Undefined, Null, Num("42")}

NextMalformed ==
    \/ Connect(MuteConns)
    \/ \E socket \in connected, roomId \in RoomIdsSent : JoinRoom(socket, roomId)
    \/ \E socket \in connected : LeaveRoom(socket)
    \/ \E socket \in connected, data \in MuteInputs : MuteStatus(socket, data)
    \/ \E socket \in connected, payload \in PayloadsSent :
          stats.messagesRelayed < MaxRelayed /\ Offer(socket, payload)
    \/ \E socket \in connected, payload \in PayloadsSent :
          stats.messagesRelayed < MaxRelayed /\ Answer(socket, payload)
    \/ \E socket \in connected, payload \in PayloadsSent :
          stats.messagesRelayed < MaxRelayed /\ IceCandidate(socket, payload)

SpecMalformed == Init /\ [][NextMalformed]_vars

\* the event is a malformed message: a payload of offer, answer, ice-candidate
\* or mute-status that is no object, or a join-room argument that is no string
Malformed(e) ==
    \/ e.event \in RelayEvents \cup {"mute-status"} /\ e.arg.t # "object"
    \/ e.event = "join-room" /\ e.arg.t # "string"

\* C30: a malformed message from one connection (a null or non-object payload
\* for offer, answer, ice-candidate or mute-status, or a join-room argument
\* that is no string) leaves the registry state of every connection
\* unchanged and delivers nothing to another connection, and the relay keeps
\* every connection and goes on handling their messages.
C30_MalformedMessageIsolated ==
    [][Malformed(lastEvent')
       => /\ UNCHANGED <<rooms, userRooms, userInfo>>
          /\ \A m \in sent' : m.to = lastEvent'.socket
          /\ UNCHANGED <<connected, sioRooms>>]_vars

\* ---------------------------------------------------------------------------
\* Properties of the relay: validation, the registry, the broadcast groups
\* ---------------------------------------------------------------------------

\* the payload of the event lacks its target or its description: the field is
\* missing (undefined, null) or empty (the empty string)
Incomplete(e) ==
    /\ e.event \in RelayEvents
    /\ e.arg.t = "object"
    /\ Falsy(e.arg.target) \/ Falsy(e.arg[BodyField(e.event)])

\* C31: an offer, answer or ice-candidate whose target is missing or empty,
\* or whose sdp/candidate is missing or empty, is relayed to no connection
\* and does not increase the relayed-message counter.
C31_IncompletePayloadNotRelayed ==
    [][Incomplete(lastEvent')
       => /\ sent' = {}
          /\ stats'.messagesRelayed = stats.messagesRelayed]_vars

\* a payload with a target that is connected and shares a room with the
\* sender, but without a description, was handled
C31_Witness ==
    /\ Incomplete(lastEvent)
    /\ ~Falsy(lastEvent.arg.target)
    /\ lastEvent.arg.target.v \in connected \ {lastEvent.socket}
    /\ lastEvent.socket \in DOMAIN userRooms
    /\ lastEvent.arg.target.v \in rooms[userRooms[lastEvent.socket]]

\* the mute-status arguments followed for the metadata records: one that is
\* stored, one that throws
InfoInputs == {MuteData(Bool(TRUE)), NullMuteData}

\* the relay with joins at different clock readings
NextInfo ==
    \/ Connect(MuteConns)
    \/ \E socket \in connected, roomId \in MuteRoomIds, now \in ClockReadings :
          JoinRoomAt(socket, roomId, now)
    \/ \E socket \in connected : LeaveRoom(socket)
    \/ \E socket \in connected : Disconnect(socket)
    \/ \E socket \in connected, data \in InfoInputs : MuteStatus(socket, data)

SpecInfo == Init /\ [][NextInfo]_vars

\* C32: a connection has a metadata record exactly when it is a member of a
\* room: the record is created with isMuted = false on a successful join, a
\* mute-status changes only the fields it supplies (the join timestamp is
\* kept, and no other connection's record changes), and the record is
\* removed on leave-room and on disconnect.
C32_MetadataRecordLifecycle ==
    /\ [](DOMAIN userInfo = DOMAIN userRooms)
    /\ [][LET e == lastEvent'
              s == e.socket
          IN  /\ JoinSucceeded'
                 => /\ s \in DOMAIN userInfo'
                    /\ userInfo'[s].isMuted = Bool(FALSE)
              /\ e.event = "mute-status"
                 => /\ DOMAIN userInfo' = DOMAIN userInfo
                    /\ \A x \in DOMAIN userInfo :
                          /\ userInfo'[x].joinedAt = userInfo[x].joinedAt
                          /\ x # s => userInfo'[x] = userInfo[x]
              /\ e.event \in {"leave-room", "disconnect"}
                 => s \notin DOMAIN userInfo']_vars

\* a member that joined at the later clock reading has set its mute flag
C32_Witness ==
    /\ lastEvent.event = "mute-status"
    /\ lastEvent.socket \in DOMAIN userInfo
    /\ userInfo[lastEvent.socket] = [isMuted |-> Bool(TRUE), joinedAt |-> 2]

\* ---------------------------------------------------------------------------
\* Room codes typed into the join form
\* ---------------------------------------------------------------------------

\* what a participant can type into the room code field
TypedCodes == {"abcd", "ABCD", "Abcd ", "WXYZ"}

\* the join-room argument of a client that is not the App
RawCodes == {"abcd"}

\* String.prototype.toUpperCase on the typed codes
toUpperCase(text) ==
    CASE text = "abcd" -> "ABCD"
      [] text = "Abcd " -> "ABCD "
      [] OTHER -> text

\* String.prototype.trim on the typed codes and their upper-case forms
trim(text) ==
    CASE text = "Abcd " -> "Abcd"
      [] text = "ABCD " -> "ABCD"
      [] OTHER -> text

\* a form that passes the code on as typed
handleJoinAsTyped(typed) == trim(typed)

\* the room id the form passes to onJoinRoom: onChange keeps the typed text
\* in upper case, handleJoin trims it
handleJoin(typed) == trim(toUpperCase(typed))

\* handleJoin -> App.joinRoom -> socket.emit('join-room', roomId), and the
\* relay's handler for it; a blank code is not submitted
FormSubmit(p, typed) ==
    /\ p \in connected
    /\ CountEvents(received[p], "joinRoom") < MaxSubmits
    /\ handleJoin(typed) # ""
    /\ joinRoomHandler(p, Str(handleJoin(typed)), Epoch)
    /\ Logged(p, [event |-> "joinRoom", data |-> Str(typed)])
    /\ UNCHANGED <<peerConnections, pcs, tasks, participants, inbox, emitted>>
    /\ UNCHANGED call
    /\ UNCHANGED wire

NextForm ==
    \/ Connect(NumPeers + 1)
    \/ \E p \in Peers, typed \in TypedCodes : FormSubmit(p, typed)
    \/ \E socket \in connected \ Peers, roomId \in RawCodes : JoinRoom(socket, Str(roomId))

SpecForm == Init /\ [][NextForm]_vars

\* the letters of a code, whatever their case and the blanks around them
Letters(code) ==
    CASE code \in {"abcd", "ABCD", "Abcd", "Abcd ", "ABCD "} -> "abcd"
      [] code = "WXYZ" -> "wxyz"
      [] OTHER -> code

\* what the participant typed when it last submitted the form
LastTyped(p) ==
    LET calls == {i \in 1..Len(received[p]) : received[p][i].event = "joinRoom"}
        last == CHOOSE i \in calls : \A j \in calls : j <= i
    IN  received[p][last].data.v

\* C33 as stated: room codes are case-normalized by the relay: two join-room
\* requests whose codes differ only in letter case place the two connections
\* in the same room.
C33_RelayNormalizesCase ==
    \A a, b \in DOMAIN userRooms :
        Letters(userRooms[a]) = Letters(userRooms[b]) => userRooms[a] = userRooms[b]

\* C33 amended: room codes are case-normalized by the participant's join
\* form, and the relay keeps a code as it receives it: two participants whose
\* submitted codes differ only in letter case (and in blanks around the code)
\* are placed in the same room.
C33_FormNormalizesCase ==
    /\ [](\A a, b \in Peers \cap DOMAIN userRooms :
             Letters(LastTyped(a)) = Letters(LastTyped(b)) => userRooms[a] = userRooms[b])
    /\ [][JoinSucceeded' => userRooms'[lastEvent'.socket] = lastEvent'.arg.v]_vars

\* two participants that typed the code in different case are in one room
C33_Witness ==
    \E a, b \in Peers \cap DOMAIN userRooms :
        /\ a # b
        /\ LastTyped(a) # LastTyped(b)
        /\ Letters(LastTyped(a)) = Letters(LastTyped(b))
        /\ userRooms[a] = userRooms[b]

\* getRoomStats(): totalRooms, totalUsers and the userCount of every room
getRoomStats(reg) ==
    [totalRooms |-> Cardinality(DOMAIN reg.rooms),
     totalUsers |-> Cardinality(DOMAIN reg.userRooms),
     roomDetails |-> [roomId \in DOMAIN reg.rooms |-> Cardinality(reg.rooms[roomId])]]

\* the sum of the userCount entries of roomDetails
RECURSIVE SumOfUserCounts(_, _)
SumOfUserCounts(details, roomIds) ==
    IF roomIds = {} THEN 0
    ELSE LET roomId == CHOOSE roomId \in roomIds : TRUE
         IN  details[roomId] + SumOfUserCounts(details, roomIds \ {roomId})

\* C34: in every reachable registry state the two maps agree and no empty
\* room is kept: userRooms maps connection s to room r exactly when s is in
\* the member set of r, every room in rooms has at least one member, and
\* totalUsers equals the sum of the per-room user counts.
C34_MapsAgreeNoEmptyRoom ==
    /\ \A s \in connected \cup DOMAIN userRooms :
          \A r \in DOMAIN rooms \cup {userRooms[x] : x \in DOMAIN userRooms} :
          (s \in DOMAIN userRooms /\ userRooms[s] = r) <=> (r \in DOMAIN rooms /\ s \in rooms[r])
    /\ \A r \in DOMAIN rooms : rooms[r] # {}
    /\ LET roomStats == getRoomStats(Registry)
       IN  roomStats.totalUsers
             = SumOfUserCounts(roomStats.roomDetails, DOMAIN roomStats.roomDetails)

\* three members in two rooms, the last join having opened a room of its own
C34_Witness ==
    /\ Cardinality(DOMAIN rooms) = 2
    /\ Cardinality(DOMAIN userRooms) = 3
    /\ lastEvent.event = "join-room"
    /\ JoinSucceeded
    /\ rooms[lastEvent.arg.v] = {lastEvent.socket}

\* the room groups a socket is in: its groups other than the one of its own id
RoomGroups(s) == sioRooms[s] \ {s}

\* C35: the broadcast group used for room events always agrees with the
\* registry: after any sequence of join-room, leave-room and disconnect a
\* connection is in the broadcast group of room r exactly when the registry
\* lists it as a member of r (so a connection that switched from room X to
\* room Y gets no later user-joined, user-left or user-mute-status of X).
C35_GroupsAgreeWithRegistry ==
    \A s \in DOMAIN sioRooms : \A r \in DOMAIN rooms \cup RoomGroups(s) :
        r \in RoomGroups(s) <=> (r \in DOMAIN rooms /\ s \in rooms[r])

\* C36: the relay delivers an offer, answer or ice-candidate only to a
\* connection that is a member of the same room as the sender: a connection
\* in room X, or in no room, cannot cause a signaling message to be delivered
\* to a member of a different room Y.
C36_RelayWithinSendersRoom ==
    lastEvent.event \in RelayEvents =>
        \A m \in sent :
            m.to \in DOMAIN userRooms
            => /\ lastEvent.socket \in DOMAIN userRooms
               /\ userRooms[lastEvent.socket] = userRooms[m.to]

\* ---------------------------------------------------------------------------
\* Properties of the participants: joining again, connecting, the roster, ICE
\* ---------------------------------------------------------------------------

\* the socket of p takes the event the relay sent it next, a room-joined
TakesRoomJoined(p) ==
    /\ socketOpen[p]
    /\ inbox[p] # <<>>
    /\ Head(inbox[p]).event = "room-joined"
    /\ inbox'[p] = Tail(inbox[p])
    /\ socketOpen'[p]

\* C37: a participant that has left a call can join again in the same
\* session: after leaveRoom followed by joinRoom the room-joined the relay
\* sends still reaches the call-state handlers, so isInCall becomes true
\* again.
C37_RejoinReachesHandlers ==
    [][\A p \in Peers : TakesRoomJoined(p) => callState'[p].isInCall]_vars

\* the relay and the Apps end to end, with the links reporting that they are
\* connected; a handler that can run does run
NextLinked ==
    \/ NextSystem
    \/ \E p \in Peers : \E i \in 1..Len(pcs[p]) : ConnectionStateChange(p, i, "connected")

SpecLinked == Init /\ [][NextLinked]_vars /\ WF_vars(NextLinked)

\* p joined a room that was not empty and its negotiation with the members
\* has completed: it has answered their offers, no call of it is suspended
\* and a link has reported 'connected'
Negotiated(p) ==
    /\ callState[p].isInCall
    /\ \E i \in 1..Len(received[p]) :
          /\ received[p][i].event = "room-joined"
          /\ ~received[p][i].data.isFirstUser
    /\ \E i \in 1..Len(emitted[p]) : emitted[p][i].event = "answer"
    /\ tasks[p] = {}
    /\ \E i \in 1..Len(received[p]) :
          /\ received[p][i].event = "connectionStateChange"
          /\ received[p][i].data.state = "connected"

\* C38: a participant that joins a non-empty room does not stay in the
\* 'connecting' state for ever: once the negotiation with the existing
\* members has completed (it answered their offers and the links reported
\* 'connected'), isConnecting eventually becomes false.
C38_ConnectingEnds ==
    \A p \in Peers : Negotiated(p) ~> ~callState[p].isConnecting

\* handleUserLeft for the user-left the socket received next
HandleUserLeftEvent(p) ==
    /\ Listening(p)
    /\ UNCHANGED call
    /\ NextEventIs(p, "user-left")
    /\ participants' = [participants EXCEPT ![p] =
                           WithoutParticipant(@, Head(inbox[p]).data.v)]
    /\ removePeer(p, Head(inbox[p]).data.v)
    /\ TakeEvent(p)
    /\ UNCHANGED <<tasks, emitted>>
    /\ UNCHANGED relay
    /\ UNCHANGED wire

\* the connections of clients that are not the App
OtherClients == connected \ {Local}

\* one App in a room of the relay, and the clients of the other connections
\* joining and leaving that room
NextRoster ==
    \/ CountEvents(received[Local], "joinRoom") = 0 /\ AppJoinRoom(Local)
    \/ /\ sent = {}
       /\ stats.totalConnections = 0 => NextSocketAwaited
       /\ Connect(NumPeers)
    \/ \E t \in tasks[Local] : SocketConnected(Local, t)
    \/ \E t \in tasks[Local] : MediaResolved(Local, t)
    \/ \E roomId \in SystemRoomIds :
          sent = {} /\ Local \in connected /\ Unanswered(Local) > 0 /\ JoinRoom(Local, roomId)
    \/ \E socket \in OtherClients, roomId \in SystemRoomIds :
          sent = {} /\ Budget(Local) /\ JoinRoom(socket, roomId)
    \/ \E socket \in OtherClients : sent = {} /\ LeaveRoom(socket)
    \/ Deliver
    \/ HandleRoomJoined(Local)
    \/ HandleUserJoinedEvent(Local)
    \/ HandleUserLeftEvent(Local)
    \/ \E t \in tasks[Local] : OfferCreated(Local, t)
    \/ \E t \in tasks[Local] : OfferLocalDescriptionSet(Local, t)

SpecRoster == Init /\ [][NextRoster]_vars

\* C39: in every reachable client state the participant roster contains each
\* remote identifier at most once and never the local participant's own
\* identifier, for every sequence of user-joined and user-left events the
\* relay can send (a member that re-joins the room it is already in included).
C39_RosterWithoutDuplicates ==
    \A p \in Peers :
        /\ \A i, j \in 1..Len(participants[p]) :
              participants[p][i].id = participants[p][j].id => i = j
        /\ \A i \in 1..Len(participants[p]) : participants[p][i].id # p

\* The events of the WebRTCService for which App registered a callback in
\* setupEventListeners(): triggerEvent(event, ...) calls only these
WebRTCEventsListened == {"localStream", "remoteStream", "connectionStateChange"}

\* onicecandidate of the i-th peer connection of p with event.candidate set:
\* the browser gathers candidates once the local description is set, and
\* setupPeerConnection's callback calls
\* triggerEvent('iceCandidate', { candidate, target: peerId }), peerId being
\* the key the connection was set up with. No callback is registered for
\* 'iceCandidate', so nothing is called and nothing is emitted on the socket.
\* The candidates of a participant are numbered in the order produced.
IceCandidateProduced(p, i) ==
    /\ i \in 1..Len(pcs[p])
    /\ ~pcs[p][i].closed
    /\ pcs[p][i].localDescription # NoDescription
    /\ CountEvents(received[p], "iceCandidate") < MaxLocalCandidates
    /\ "iceCandidate" \notin WebRTCEventsListened
    /\ Logged(p, [event |-> "iceCandidate",
                  data |-> [candidate |-> Obj(CountEvents(received[p], "iceCandidate") + 1),
                            target |-> pcs[p][i].peerId, pc |-> i]])
    /\ UNCHANGED <<peerConnections, pcs, tasks, participants, inbox, emitted>>
    /\ UNCHANGED call
    /\ UNCHANGED relay
    /\ UNCHANGED wire

\* The relay and the Apps end to end, with the candidates the peer
\* connections produce.
NextIce ==
    \/ NextSystem
    \/ \E p \in Peers : \E i \in 1..Len(pcs[p]) : IceCandidateProduced(p, i)

SpecIce == Init /\ [][NextIce]_vars

\* the i-th peer connection of p is the link to the remote r: it was set up
\* for an offer received from r, or its offer was sent to r
LinkedTo(p, i, r) ==
    \/ pcs[p][i].peerId = r
    \/ \E j \in 1..Len(emitted[p]) :
          /\ emitted[p][j].event = "offer"
          /\ emitted[p][j].sdp = Description("offer", p, i)
          /\ emitted[p][j].target = r

\* C40: every local ICE candidate produced by the peer connection for remote
\* R is sent to the relay with target equal to R's connection identifier,
\* both for links created by a local offer and for links created by a
\* received offer.
C40_LocalCandidatesSentToRemote ==
    \A p \in Peers : \A k \in 1..Len(received[p]) : \A r \in Peers :
        /\ received[p][k].event = "iceCandidate"
        /\ LinkedTo(p, received[p][k].data.pc, r)
        => \E j \in 1..Len(emitted[p]) :
              /\ emitted[p][j].event = "ice-candidate"
              /\ emitted[p][j].sdp = received[p][k].data.candidate
              /\ emitted[p][j].target = r

====
